---- MODULE Spec2Model ----
(***************************************************************************)
(* A model of secenv: the value model (manifest.rs), the PGP engine        *)
(* (pgp.rs), the backend adapters (gpg.rs, gcp.rs, aws.rs), the            *)
(* tagged-union codec (secenv-derive, adapter/hocon.rs) and the unlock run *)
(* (main.rs, args.rs).                                                     *)
(*                                                                         *)
(* A Rust String is modelled as the sequence of its UTF-8 bytes (0..255).  *)
(* A Result is a record [ok, val, err, detail].                            *)
(***************************************************************************)
EXTENDS Integers, Sequences, FiniteSets, TLC

\* ------------------------------------------------------------------ bounds

\* Longest byte string that is base64-encoded to build an input.
MaxBytes == 3

\* ----------------------------------------------------------------- results

\* Result<String>: the text, or the error's message and the text the message
\* quotes (the standard error of a tool), which stays in the error's chain
\* under a `.context(..)`.
Ok(v) == [ok |-> TRUE, val |-> v, err |-> "none", detail |-> <<>>]

Err(e) == [ok |-> FALSE, val |-> <<>>, err |-> e, detail |-> <<>>]

NoResult == [ok |-> FALSE, val |-> <<>>, err |-> "not called", detail |-> <<>>]

\* ------------------------------------------------------------------ base64
\* base64::engine::general_purpose::STANDARD: the standard alphabet, canonical
\* padding required, non-zero trailing bits refused.

\* The character (ASCII code) of a 6-bit value.
B64Char(v) ==
    IF v < 26 THEN 65 + v
    ELSE IF v < 52 THEN 97 + (v - 26)
    ELSE IF v < 62 THEN 48 + (v - 52)
    ELSE IF v = 62 THEN 43 ELSE 47

\* The 6-bit value of a character, -1 when it is not of the alphabet.
B64Val(c) ==
    IF c >= 65 /\ c <= 90 THEN c - 65
    ELSE IF c >= 97 /\ c <= 122 THEN c - 97 + 26
    ELSE IF c >= 48 /\ c <= 57 THEN c - 48 + 52
    ELSE IF c = 43 THEN 62
    ELSE IF c = 47 THEN 63 ELSE -1

\* Number of '=' characters at the end of s.
RECURSIVE TrailingPad(_)
TrailingPad(s) ==
    IF s = <<>> \/ s[Len(s)] # 61 THEN 0
    ELSE 1 + TrailingPad(SubSeq(s, 1, Len(s) - 1))

\* The bytes of a sequence of 6-bit values (whole quads, then a rest of 2 or 3).
RECURSIVE SextetsToBytes(_)
SextetsToBytes(d) ==
    IF Len(d) >= 4 THEN
        << d[1] * 4 + d[2] \div 16,
           (d[2] % 16) * 16 + d[3] \div 4,
           (d[3] % 4) * 64 + d[4] >> \o SextetsToBytes(SubSeq(d, 5, Len(d)))
    ELSE IF Len(d) = 3 THEN
        << d[1] * 4 + d[2] \div 16, (d[2] % 16) * 16 + d[3] \div 4 >>
    ELSE IF Len(d) = 2 THEN
        << d[1] * 4 + d[2] \div 16 >>
    ELSE <<>>

\* The bits of the last symbol that belong to no byte.
TrailingBits(d) ==
    IF Len(d) % 4 = 2 THEN d[Len(d)] % 16
    ELSE IF Len(d) % 4 = 3 THEN d[Len(d)] % 4
    ELSE 0

\* The decoding of the symbol values vals, p padding characters following them.
DecodeSymbols(vals, p, strict) ==
    IF \E i \in 1..Len(vals) : vals[i] = -1 THEN Err("base64: invalid byte")
    ELSE IF Len(vals) % 4 = 1 THEN Err("base64: invalid length")
    ELSE IF p # (4 - (Len(vals) % 4)) % 4 THEN Err("base64: invalid padding")
    ELSE IF strict /\ TrailingBits(vals) # 0 THEN Err("base64: invalid last symbol")
    ELSE Ok(SextetsToBytes(vals))

\* The symbols of s before its padding, as values.
SymbolsOf(s) == [i \in 1..(Len(s) - TrailingPad(s)) |-> B64Val(s[i])]

\* Mutant: the bits of the last symbol that belong to no byte are not checked.
Base64Decode_TrailingBitsAllowed(s) == DecodeSymbols(SymbolsOf(s), TrailingPad(s), FALSE)

\* base64::engine::general_purpose::STANDARD.decode
Base64Decode(s) == DecodeSymbols(SymbolsOf(s), TrailingPad(s), TRUE)

\* String::from_utf8: the well-formed UTF-8 byte sequences.
Cont(b) == b >= 128 /\ b <= 191

RECURSIVE IsUtf8(_)
IsUtf8(b) ==
    IF b = <<>> THEN TRUE
    ELSE IF b[1] < 128 THEN IsUtf8(Tail(b))
    ELSE IF b[1] >= 194 /\ b[1] <= 223 THEN
        /\ Len(b) >= 2 /\ Cont(b[2])
        /\ IsUtf8(SubSeq(b, 3, Len(b)))
    ELSE IF b[1] >= 224 /\ b[1] <= 239 THEN
        /\ Len(b) >= 3 /\ Cont(b[2]) /\ Cont(b[3])
        /\ (b[1] = 224 => b[2] >= 160)
        /\ (b[1] = 237 => b[2] <= 159)
        /\ IsUtf8(SubSeq(b, 4, Len(b)))
    ELSE IF b[1] >= 240 /\ b[1] <= 244 THEN
        /\ Len(b) >= 4 /\ Cont(b[2]) /\ Cont(b[3]) /\ Cont(b[4])
        /\ (b[1] = 240 => b[2] >= 144)
        /\ (b[1] = 244 => b[2] <= 143)
        /\ IsUtf8(SubSeq(b, 5, Len(b)))
    ELSE FALSE

FromUtf8(b) == IF IsUtf8(b) THEN Ok(b) ELSE Err("not valid UTF-8")

\* ------------------------------------------------------------ EncodedValue

Literal(s) == [tag |-> "literal", s |-> s]

Base64(s) == [tag |-> "base64", s |-> s]

\* String::from_utf8(decoded_bytes) of EncodedValue::get_value
DecodedText(decoded_bytes) ==
    IF ~decoded_bytes.ok THEN Err("Failed to decode base64 value")
    ELSE IF ~IsUtf8(decoded_bytes.val) THEN Err("Decoded value is not valid UTF-8")
    ELSE Ok(decoded_bytes.val)

EncodedValue_get_value(ev) ==
    IF ev.tag = "literal" THEN Ok(ev.s) ELSE DecodedText(Base64Decode(ev.s))

\* ---- the inputs of the EncodedValue check

\* 'A', the two bytes of U+00E9, and a byte that occurs in no UTF-8 text.
SampleBytes == {65, 195, 169, 255}

RECURSIVE SeqsUpTo(_, _)
SeqsUpTo(S, n) ==
    IF n = 0 THEN {<<>>}
    ELSE LET shorter == SeqsUpTo(S, n - 1)
         IN  shorter \cup {Append(q, x) : q \in {r \in shorter : Len(r) = n - 1}, x \in S}

ByteStrings == SeqsUpTo(SampleBytes, MaxBytes)

\* The reference encoder: standard alphabet, '=' padding.
RECURSIVE Base64Encode(_)
Base64Encode(b) ==
    IF b = <<>> THEN <<>>
    ELSE IF Len(b) = 1 THEN
        << B64Char(b[1] \div 4), B64Char((b[1] % 4) * 16), 61, 61 >>
    ELSE IF Len(b) = 2 THEN
        << B64Char(b[1] \div 4), B64Char((b[1] % 4) * 16 + b[2] \div 16),
           B64Char((b[2] % 16) * 4), 61 >>
    ELSE
        << B64Char(b[1] \div 4), B64Char((b[1] % 4) * 16 + b[2] \div 16),
           B64Char((b[2] % 16) * 4 + b[3] \div 64), B64Char(b[3] % 64) >>
        \o Base64Encode(SubSeq(b, 4, Len(b)))

\* Replacement characters for damaged inputs: '=', '*', 'B', '/'.
DamageChars == {61, 42, 66, 47}

\* Encodings, and encodings damaged in one place, cut short or extended.
Base64Inputs ==
    LET good == {Base64Encode(b) : b \in ByteStrings}
    IN  good
        \cup {[s EXCEPT ![i] = c] : s \in {g \in good : g # <<>>}, i \in 1..4, c \in DamageChars}
        \cup {SubSeq(s, 1, Len(s) - 1) : s \in {g \in good : g # <<>>}}
        \cup {Append(s, c) : s \in good, c \in DamageChars}

EncInputs ==
    {Literal(s) : s \in {b \in ByteStrings : IsUtf8(b)} \cup {Base64Encode(<<65>>)}}
    \cup {Base64(s) : s \in Base64Inputs}

\* --------------------------------------------------------------- PGP data
\* Option<T> is a sequence of at most one element.

None == <<>>

Some(x) == <<x>>

\* A key of a certificate: whether it carries secret material, whether that
\* material is password-protected (and by which password), whether the policy
\* accepts its binding, whether it is inside its validity window, whether it is
\* revoked, and whether it may be used for decryption.
Key(id, secret, encrypted, pwd, valid, alive, revoked, enc) ==
    [id |-> id, secret |-> secret, encrypted |-> encrypted, pwd |-> pwd,
     valid |-> valid, alive |-> alive, revoked |-> revoked, enc |-> enc]

\* A usable decryption subkey, not protected.
OpenKey(id) == Key(id, TRUE, FALSE, "", TRUE, TRUE, FALSE, TRUE)

\* A usable decryption subkey protected by password pwd.
LockedKey(id, pwd) == Key(id, TRUE, TRUE, pwd, TRUE, TRUE, FALSE, TRUE)

Cert(fp, keys) == [fp |-> fp, keys |-> keys]

\* What the key materials of the environment contain, in the order of their
\* one-character texts "A", "B", ...
CertCatalogue == <<
    Cert("FPA", <<LockedKey("a1", "p1")>>),
    \* another material with the same primary key, exported without protection
    Cert("FPA", <<OpenKey("a1")>>),
    \* the only protected key is a signing-only primary key
    Cert("FPC", <<[LockedKey("c0", "p1") EXCEPT !.enc = FALSE], OpenKey("c1")>>),
    \* the only protected key is revoked
    Cert("FPD", <<[LockedKey("d1", "p1") EXCEPT !.revoked = TRUE], OpenKey("d2")>>),
    \* the only protected key is expired
    Cert("FPE", <<[LockedKey("e1", "p1") EXCEPT !.alive = FALSE], OpenKey("e2")>>),
    \* the only protected key is refused by the policy
    Cert("FPF", <<[LockedKey("f1", "p1") EXCEPT !.valid = FALSE], OpenKey("f2")>>),
    \* two protected subkeys with different passwords
    Cert("FPG", <<LockedKey("g1", "p2"), LockedKey("g2", "p1")>>),
    \* a certificate without secret key material
    Cert("FPH", <<[OpenKey("h1") EXCEPT !.secret = FALSE]>>) >>

MaterialOf(i) == <<64 + i>>

\* A text that is no certificate: "X".
BadMaterial == <<88>>

Materials == {MaterialOf(i) : i \in 1..Len(CertCatalogue)} \cup {BadMaterial}

NoCert == Cert("", <<>>)

\* openpgp::Cert::from_bytes
Cert_from_bytes(m) ==
    IF Len(m) = 1 /\ m[1] - 64 \in 1..Len(CertCatalogue)
    THEN [ok |-> TRUE, cert |-> CertCatalogue[m[1] - 64]]
    ELSE [ok |-> FALSE, cert |-> NoCert]

get_fingerprint(cert) == cert.fp

\* An encrypted message: the key ids of its PKESK packets, its plaintext, and
\* whether its body passes the decryptor's integrity check.
Message(pkesks, plain, sound) == [pkesks |-> pkesks, plain |-> plain, sound |-> sound]

\* The messages of the environment, in the order of their texts "m", "n", ...
MessageCatalogue == <<
    Message(<<"zz", "a1", "c1", "d2", "e2", "f2", "g2">>, <<115>>, TRUE),
    Message(<<"c0", "d1", "e1", "f1", "g1", "h1">>, <<116>>, TRUE),
    Message(<<"zz">>, <<117>>, TRUE),
    Message(<<"a1", "g2">>, <<255>>, TRUE),
    Message(<<"a1", "g2">>, <<118>>, FALSE) >>

CipherOf(i) == <<108 + i>>

BadCipher == <<88>>

Ciphers == {CipherOf(i) : i \in 1..Len(MessageCatalogue)} \cup {BadCipher}

NoMessage == Message(<<>>, <<>>, FALSE)

\* DecryptorBuilder::from_bytes
Message_from_bytes(c) ==
    IF Len(c) = 1 /\ c[1] - 108 \in 1..Len(MessageCatalogue)
    THEN [ok |-> TRUE, msg |-> MessageCatalogue[c[1] - 108]]
    ELSE [ok |-> FALSE, msg |-> NoMessage]

Passwords == {"p1", "p2"}

\* rpassword::prompt_password: a password, or an error (no terminal).
PromptAnswers == {[ok |-> TRUE, pwd |-> p] : p \in Passwords} \cup {[ok |-> FALSE, pwd |-> ""]}

\* ------------------------------------------------------------- PgpManager

CachedKey(cert, password) == [cert |-> cert, password |-> password]

UnlockedKey(cert, fingerprint, password) ==
    [cert |-> cert, fingerprint |-> fingerprint, password |-> password]

NoKey == UnlockedKey(NoCert, "", None)

\* cert.keys().secret().with_policy(policy, None)
SecretValidKeys(cert) ==
    SelectSeq(cert.keys, LAMBDA k : k.secret /\ k.valid)

\* Mutant: only the keys the decryption helper would try are inspected.
needs_password_CandidatesOnly(cert) ==
    \E i \in 1..Len(cert.keys) :
        /\ cert.keys[i].secret /\ cert.keys[i].valid
        /\ cert.keys[i].alive /\ ~cert.keys[i].revoked
        /\ cert.keys[i].encrypted

\* "Check if any secret keys are encrypted"
needs_password(cert) ==
    \E i \in 1..Len(SecretValidKeys(cert)) : SecretValidKeys(cert)[i].encrypted

\* unlock_key returns an error: the cache stays as it is.
UnlockFailed(c, err, prompted, fp) ==
    [ok |-> FALSE, key |-> NoKey, err |-> err, cache |-> c, prompted |-> prompted,
     fp |-> fp, hit |-> FALSE]

\* "Check if already cached": the cached key is returned.
UnlockHit(c, fingerprint) ==
    [ok |-> TRUE, key |-> UnlockedKey(c[fingerprint].cert, fingerprint, c[fingerprint].password),
     err |-> "none", cache |-> c, prompted |-> FALSE, fp |-> fingerprint, hit |-> TRUE]

\* "Cache the key and password"
UnlockStored(c, cert, fingerprint, password, prompted) ==
    [ok |-> TRUE, key |-> UnlockedKey(cert, fingerprint, password), err |-> "none",
     cache |-> [f \in DOMAIN c \cup {fingerprint} |->
                  IF f = fingerprint THEN CachedKey(cert, password) ELSE c[f]],
     prompted |-> prompted, fp |-> fingerprint, hit |-> FALSE]

\* Mutant: a prompt that fails counts as no password, and the key is cached.
UnlockMiss_PromptFailureIgnored(c, cert, needs, answer) ==
    UnlockStored(c, cert, get_fingerprint(cert),
                 IF needs /\ answer.ok THEN Some(answer.pwd) ELSE None, needs)

\* unlock_key after the cache lookup missed: the prompt, where a password is
\* needed, and the cache insert.
UnlockMiss(c, cert, needs, answer) ==
    IF needs /\ ~answer.ok
    THEN UnlockFailed(c, "Failed to read password", TRUE, get_fingerprint(cert))
    ELSE UnlockStored(c, cert, get_fingerprint(cert),
                      IF needs THEN Some(answer.pwd) ELSE None, needs)

\* unlock_key after Cert::from_bytes
UnlockParsed(c, parsed, answer) ==
    IF ~parsed.ok THEN UnlockFailed(c, "Failed to parse PGP private key", FALSE, "")
    ELSE IF get_fingerprint(parsed.cert) \in DOMAIN c THEN UnlockHit(c, get_fingerprint(parsed.cert))
    ELSE UnlockMiss(c, parsed.cert, needs_password(parsed.cert), answer)

\* Mutant: the cache is never consulted.
unlock_key_NoCacheLookup(c, private_key_asc, answer) ==
    IF ~Cert_from_bytes(private_key_asc).ok
    THEN UnlockFailed(c, "Failed to parse PGP private key", FALSE, "")
    ELSE UnlockMiss(c, Cert_from_bytes(private_key_asc).cert,
                    needs_password(Cert_from_bytes(private_key_asc).cert), answer)

\* Mutant: material that does not parse falls back to a key already unlocked.
unlock_key_FallbackToCached(c, private_key_asc, answer) ==
    IF ~Cert_from_bytes(private_key_asc).ok /\ DOMAIN c # {}
    THEN UnlockHit(c, CHOOSE f \in DOMAIN c : TRUE)
    ELSE UnlockParsed(c, Cert_from_bytes(private_key_asc), answer)

\* Mutant: a cache hit replaces the stored certificate by the one just parsed.
unlock_key_ReplaceOnHit(c, private_key_asc, answer) ==
    IF Cert_from_bytes(private_key_asc).ok
       /\ get_fingerprint(Cert_from_bytes(private_key_asc).cert) \in DOMAIN c
    THEN UnlockStored(c, Cert_from_bytes(private_key_asc).cert,
                      get_fingerprint(Cert_from_bytes(private_key_asc).cert),
                      c[get_fingerprint(Cert_from_bytes(private_key_asc).cert)].password, FALSE)
    ELSE UnlockParsed(c, Cert_from_bytes(private_key_asc), answer)

\* Mutant: a cache hit returns the certificate just parsed with the stored
\* password; the cache stays as it is.
unlock_key_ParsedCertOnHit(c, private_key_asc, answer) ==
    IF Cert_from_bytes(private_key_asc).ok
       /\ get_fingerprint(Cert_from_bytes(private_key_asc).cert) \in DOMAIN c
    THEN [UnlockHit(c, get_fingerprint(Cert_from_bytes(private_key_asc).cert))
            EXCEPT !.key.cert = Cert_from_bytes(private_key_asc).cert]
    ELSE UnlockParsed(c, Cert_from_bytes(private_key_asc), answer)

\* Mutant: a cache hit returns the stored certificate without its password.
unlock_key_HitDropsPassword(c, private_key_asc, answer) ==
    IF Cert_from_bytes(private_key_asc).ok
       /\ get_fingerprint(Cert_from_bytes(private_key_asc).cert) \in DOMAIN c
    THEN [UnlockHit(c, get_fingerprint(Cert_from_bytes(private_key_asc).cert))
            EXCEPT !.key.password = None]
    ELSE UnlockParsed(c, Cert_from_bytes(private_key_asc), answer)

\* unlock_key on the cache c with the prompt answering `answer` when asked:
\* the result, the cache afterwards and whether the prompt was invoked.
unlock_key(c, private_key_asc, answer) ==
    UnlockParsed(c, Cert_from_bytes(private_key_asc), answer)

\* What CachedKeyHelper::decrypt does with the key k of the certificate.
HelperStep(k, password, pkesks) ==
    IF ~(k.secret /\ k.valid /\ k.alive /\ ~k.revoked) THEN "not a candidate"
    ELSE IF k.encrypted /\ password = None THEN "no password"
    ELSE IF k.encrypted /\ password[1] # k.pwd THEN "unlock failed"
    ELSE IF \E i \in 1..Len(pkesks) : pkesks[i] = k.id THEN "session key"
    ELSE "no session key"

\* Mutant: a key that the password does not unlock ends the loop.
RECURSIVE HelperTrace_StopAtUnlockFailure(_, _, _)
HelperTrace_StopAtUnlockFailure(keys, password, pkesks) ==
    IF keys = <<>> THEN <<>>
    ELSE <<[key |-> Head(keys).id, step |-> HelperStep(Head(keys), password, pkesks)]>>
         \o (IF HelperStep(Head(keys), password, pkesks) \in {"session key", "unlock failed"}
             THEN <<>>
             ELSE HelperTrace_StopAtUnlockFailure(Tail(keys), password, pkesks))

\* CachedKeyHelper::decrypt: what happens to each key of the certificate, in
\* order, up to the first one that recovers a session key.
RECURSIVE HelperTrace(_, _, _)
HelperTrace(keys, password, pkesks) ==
    IF keys = <<>> THEN <<>>
    ELSE <<[key |-> Head(keys).id, step |-> HelperStep(Head(keys), password, pkesks)]>>
         \o (IF HelperStep(Head(keys), password, pkesks) = "session key" THEN <<>>
             ELSE HelperTrace(Tail(keys), password, pkesks))

\* Whether the helper returned Some(cert): its last step recovered a session key.
HelperFound(trace) == trace # <<>> /\ trace[Len(trace)].step = "session key"

\* Mutant: the plaintext is returned whether or not a session key was found.
Decrypted_WithoutSessionKey(u, parsed, trace) ==
    [res |-> IF ~u.ok THEN Err(u.err)
             ELSE IF ~parsed.ok THEN Err("Failed to parse encrypted PGP message")
             ELSE IF ~parsed.msg.sound THEN Err("Failed reading decrypted plaintext")
             ELSE IF ~IsUtf8(parsed.msg.plain) THEN Err("Decrypted data is not valid UTF-8")
             ELSE Ok(parsed.msg.plain),
     cache |-> u.cache, unlock |-> u, trace |-> trace]

\* PgpManager::decrypt after unlock_key did u and the message parsed as
\* `parsed`, the helper having done `trace`.
Decrypted(u, parsed, trace) ==
    [res |-> IF ~u.ok THEN Err(u.err)
             ELSE IF ~parsed.ok THEN Err("Failed to parse encrypted PGP message")
             ELSE IF ~HelperFound(trace) THEN Err("Failed to initialize PGP decryptor")
             ELSE IF ~parsed.msg.sound THEN Err("Failed reading decrypted plaintext")
             ELSE IF ~IsUtf8(parsed.msg.plain) THEN Err("Decrypted data is not valid UTF-8")
             ELSE Ok(parsed.msg.plain),
     cache |-> u.cache, unlock |-> u, trace |-> trace]

\* DecryptorBuilder::with_policy(.., helper) on the unlocked key
DecryptWith(u, parsed) ==
    Decrypted(u, parsed,
              IF u.ok /\ parsed.ok
              THEN HelperTrace(u.key.cert.keys, u.key.password, parsed.msg.pkesks)
              ELSE <<>>)

\* PgpManager::decrypt on the cache c: the result, the cache afterwards, what
\* unlock_key did and what the helper did.
PgpManager_decrypt(c, private_key_asc, encrypted_data, answer) ==
    DecryptWith(unlock_key(c, private_key_asc, answer), Message_from_bytes(encrypted_data))

\* ---------------------------------------------------------------- backends
\* What an external process did: whether it could be run at all ("spawn",
\* "stdin" and "wait" name the step that failed), its exit status and what it
\* wrote.
ProcOut(io, success, stdout, stderr) ==
    [io |-> io, success |-> success, stdout |-> stdout, stderr |-> stderr]

\* What a backend call returned and which tool it invoked ("none": no process
\* was started).
Fetched(res, tool) == [res |-> res, tool |-> tool, runs |-> IF tool = "none" THEN 0 ELSE 1]

\* The length of the maximal ill-formed subpart at the head of b, which
\* begins with no well-formed character.
BadLen(b) ==
    IF b[1] >= 224 /\ b[1] <= 239 /\ Len(b) >= 2 /\ Cont(b[2])
       /\ (b[1] = 224 => b[2] >= 160) /\ (b[1] = 237 => b[2] <= 159) THEN 2
    ELSE IF b[1] >= 240 /\ b[1] <= 244 /\ Len(b) >= 2 /\ Cont(b[2])
            /\ (b[1] = 240 => b[2] >= 144) /\ (b[1] = 244 => b[2] <= 143)
         THEN IF Len(b) >= 3 /\ Cont(b[3]) THEN 3 ELSE 2
    ELSE 1

\* The length of the well-formed character at the head of b, 0 if there is
\* none.
CharLen(b) ==
    IF b[1] < 128 THEN 1
    ELSE IF b[1] >= 194 /\ b[1] <= 223 /\ Len(b) >= 2 THEN (IF IsUtf8(SubSeq(b, 1, 2)) THEN 2 ELSE 0)
    ELSE IF b[1] >= 224 /\ b[1] <= 239 /\ Len(b) >= 3 THEN (IF IsUtf8(SubSeq(b, 1, 3)) THEN 3 ELSE 0)
    ELSE IF b[1] >= 240 /\ b[1] <= 244 /\ Len(b) >= 4 THEN (IF IsUtf8(SubSeq(b, 1, 4)) THEN 4 ELSE 0)
    ELSE 0

\* String::from_utf8_lossy: each maximal ill-formed subpart becomes U+FFFD.
RECURSIVE from_utf8_lossy(_)
from_utf8_lossy(b) ==
    IF b = <<>> THEN <<>>
    ELSE IF CharLen(b) > 0
         THEN SubSeq(b, 1, CharLen(b)) \o from_utf8_lossy(SubSeq(b, CharLen(b) + 1, Len(b)))
    ELSE <<239, 191, 189>> \o from_utf8_lossy(SubSeq(b, BadLen(b) + 1, Len(b)))

\* anyhow!("<tool> failed: {}", stderr)
ToolFailed(stderr) == [Err("tool failed") EXCEPT !.detail = from_utf8_lossy(stderr)]

\* The length of the White_Space character s begins with, 0 if it begins with
\* none: U+0009..U+000D, U+0020, U+0085, U+00A0, U+1680, U+2000..U+200A,
\* U+2028, U+2029, U+202F, U+205F, U+3000.
WhiteSpaceLen(s) ==
    IF s = <<>> THEN 0
    ELSE IF s[1] \in {9, 10, 11, 12, 13, 32} THEN 1
    ELSE IF Len(s) >= 2 /\ s[1] = 194 /\ s[2] \in {133, 160} THEN 2
    ELSE IF Len(s) >= 3 /\ s[1] = 225 /\ s[2] = 154 /\ s[3] = 128 THEN 3
    ELSE IF Len(s) >= 3 /\ s[1] = 226 /\ s[2] = 128 /\ s[3] \in (128..138) \cup {168, 169, 175} THEN 3
    ELSE IF Len(s) >= 3 /\ s[1] = 226 /\ s[2] = 129 /\ s[3] = 159 THEN 3
    ELSE IF Len(s) >= 3 /\ s[1] = 227 /\ s[2] = 128 /\ s[3] = 128 THEN 3
    ELSE 0

\* str::trim().is_empty()
RECURSIVE IsBlank(_)
IsBlank(s) ==
    IF s = <<>> THEN TRUE
    ELSE IF WhiteSpaceLen(s) = 0 THEN FALSE
    ELSE IsBlank(SubSeq(s, WhiteSpaceLen(s) + 1, Len(s)))

\* Mutant: a successful export is returned whatever it contains.
export_private_key_EmptyAccepted(spec, proc) ==
    IF proc.io # "ok" THEN Fetched(Err("Failed to execute gpg to export private key"), "gpg_export")
    ELSE IF ~proc.success THEN Fetched(ToolFailed(proc.stderr), "gpg_export")
    ELSE IF ~IsUtf8(proc.stdout) THEN Fetched(Err("GPG private key output is not valid UTF-8"), "gpg_export")
    ELSE Fetched(Ok(proc.stdout), "gpg_export")

\* GpgManager::export_private_key
export_private_key(spec, proc) ==
    IF proc.io # "ok" THEN Fetched(Err("Failed to execute gpg to export private key"), "gpg_export")
    ELSE IF ~proc.success THEN Fetched(ToolFailed(proc.stderr), "gpg_export")
    ELSE IF ~IsUtf8(proc.stdout) THEN Fetched(Err("GPG private key output is not valid UTF-8"), "gpg_export")
    ELSE IF IsBlank(proc.stdout) THEN Fetched(Err("No private key found for fingerprint"), "gpg_export")
    ELSE Fetched(Ok(proc.stdout), "gpg_export")

\* GpgManager::decrypt_data
decrypt_data(encrypted_data, proc) ==
    IF proc.io = "spawn" THEN Fetched(Err("Failed to spawn gpg process for decryption"), "gpg_decrypt")
    ELSE IF proc.io = "stdin" THEN Fetched(Err("Failed to write encrypted data to gpg stdin"), "gpg_decrypt")
    ELSE IF proc.io = "wait" THEN Fetched(Err("Failed to wait for gpg decryption process"), "gpg_decrypt")
    ELSE IF ~proc.success THEN Fetched(ToolFailed(proc.stderr), "gpg_decrypt")
    ELSE IF ~IsUtf8(proc.stdout) THEN Fetched(Err("GPG decrypted output is not valid UTF-8"), "gpg_decrypt")
    ELSE Fetched(Ok(proc.stdout), "gpg_decrypt")

\* str::split
RECURSIVE Split(_, _)
Split(s, sep) ==
    IF \A i \in 1..Len(s) : s[i] # sep THEN <<s>>
    ELSE LET at == CHOOSE i \in 1..Len(s) : s[i] = sep /\ \A j \in 1..(i - 1) : s[j] # sep
         IN  <<SubSeq(s, 1, at - 1)>> \o Split(SubSeq(s, at + 1, Len(s)), sep)

\* "projects" and "secrets"
ProjectsWord == <<112, 114, 111, 106, 101, 99, 116, 115>>

SecretsWord == <<115, 101, 99, 114, 101, 116, 115>>

parse_project_and_secret(fqn) ==
    LET parts == Split(fqn, 47)
    IN  IF Len(parts) < 4 \/ parts[1] # ProjectsWord \/ parts[3] # SecretsWord
        THEN [ok |-> FALSE, project |-> <<>>, secret_name |-> <<>>]
        ELSE [ok |-> TRUE, project |-> parts[2], secret_name |-> parts[4]]

\* str::trim_end_matches(['\n', '\r'])
RECURSIVE TrimEndNewlines(_)
TrimEndNewlines(s) ==
    IF s # <<>> /\ s[Len(s)] \in {10, 13} THEN TrimEndNewlines(SubSeq(s, 1, Len(s) - 1)) ELSE s

GcpSecretSpec(secret, version) == [secret |-> secret, version |-> version]

\* GcpSecretManager::access_secret
access_secret(spec, proc) ==
    IF ~parse_project_and_secret(spec.secret).ok THEN Fetched(Err("Invalid GCP secret format"), "none")
    ELSE IF proc.io # "ok" THEN Fetched(Err("Failed to execute gcloud to access secret"), "gcloud")
    ELSE IF ~proc.success THEN Fetched(ToolFailed(proc.stderr), "gcloud")
    ELSE IF ~IsUtf8(proc.stdout) THEN Fetched(Err("Secret value is not valid UTF-8"), "gcloud")
    ELSE Fetched(Ok(TrimEndNewlines(proc.stdout)), "gcloud")

\* "latest"
LatestWord == <<108, 97, 116, 101, 115, 116>>

\* format!("{}#{}", spec.secret, spec.version.clone().unwrap_or_else(|| "latest".into()))
cache_key(spec) ==
    spec.secret \o <<35>> \o (IF spec.version = None THEN LatestWord ELSE spec.version[1])

\* What a cached access did: what it returned, the process it ran and the
\* cache afterwards.
CachedFetch(f, secret_cache) == [res |-> f.res, tool |-> f.tool, runs |-> f.runs, cache |-> secret_cache]

\* access_secret_cached_with after the lookup missed, access_secret having
\* returned f.
CacheFetched(secret_cache, key, f) ==
    IF ~f.res.ok THEN CachedFetch(f, secret_cache)
    ELSE CachedFetch(f, [k \in DOMAIN secret_cache \cup {key} |->
                            IF k = key THEN f.res.val ELSE secret_cache[k]])

\* Mutant: the value fetched is stored whether or not an entry is there.
access_secret_cached_with_Refetch(secret_cache, spec, proc) ==
    CacheFetched(secret_cache, cache_key(spec), access_secret(spec, proc))

\* GcpSecretManager::access_secret_cached_with
access_secret_cached_with(secret_cache, spec, proc) ==
    IF cache_key(spec) \in DOMAIN secret_cache
    THEN CachedFetch(Fetched(Ok(secret_cache[cache_key(spec)]), "none"), secret_cache)
    ELSE CacheFetched(secret_cache, cache_key(spec), access_secret(spec, proc))

AwsSecretSpec(secret, version, region) == [secret |-> secret, version |-> version, region |-> region]

\* The arguments of `aws` that name the version.
aws_version_args(spec) ==
    IF spec.version = None THEN <<>>
    ELSE IF \A i \in 1..Len(spec.version[1]) :
                spec.version[1][i] \in (65..90) \cup {95}
         THEN <<"--version-stage", spec.version[1]>>
    ELSE <<"--version-id", spec.version[1]>>

\* Mutant: a failed `aws` is run a second time.
aws_access_secret_Retry(spec, proc) ==
    IF proc.io # "ok" THEN Fetched(Err("Failed to execute aws CLI to access secret"), "aws")
    ELSE IF ~proc.success THEN [Fetched(ToolFailed(proc.stderr), "aws") EXCEPT !.runs = 2]
    ELSE IF ~IsUtf8(proc.stdout) THEN Fetched(Err("Secret value is not valid UTF-8"), "aws")
    ELSE Fetched(Ok(TrimEndNewlines(proc.stdout)), "aws")

\* AwsSecretManager::access_secret
aws_access_secret(spec, proc) ==
    IF proc.io # "ok" THEN Fetched(Err("Failed to execute aws CLI to access secret"), "aws")
    ELSE IF ~proc.success THEN Fetched(ToolFailed(proc.stderr), "aws")
    ELSE IF ~IsUtf8(proc.stdout) THEN Fetched(Err("Secret value is not valid UTF-8"), "aws")
    ELSE Fetched(Ok(TrimEndNewlines(proc.stdout)), "aws")

\* ---------------------------------------------- SecretAllocation, Content

Allocation(tag, ev, arg, version) == [tag |-> tag, ev |-> ev, arg |-> arg, version |-> version]

AllocLiteral(ev) == Allocation("literal", ev, <<>>, None)

AllocFile(path) == Allocation("file", Literal(<<>>), path, None)

AllocGpg(fingerprint) == Allocation("gpg", Literal(<<>>), fingerprint, None)

AllocGcp(secret, version) == Allocation("gcp", Literal(<<>>), secret, version)

NoAllocation == Allocation("none", Literal(<<>>), <<>>, None)

Plain(ev) == [tag |-> "plain", value |-> ev, secret |-> NoAllocation]

\* Content::Secure with Secret::PGP(allocation)
Secure(allocation, ev) == [tag |-> "secure", value |-> ev, secret |-> allocation]

\* What the outside world answers during one resolution: the read of a key
\* file, the external process, and the password prompt.
Ext(file, proc, answer) == [file |-> file, proc |-> proc, answer |-> answer]

\* `.context(msg)` on the result of a backend call
WithContext(f, msg) == [f EXCEPT !.res = IF f.res.ok THEN f.res ELSE [f.res EXCEPT !.err = msg]]

\* SecretAllocation::get_value
SecretAllocation_get_value(a, ext) ==
    IF a.tag = "literal" THEN Fetched(EncodedValue_get_value(a.ev), "none")
    ELSE IF a.tag = "file" THEN WithContext(Fetched(ext.file, "file_read"), "Failed to read file")
    ELSE IF a.tag = "gpg" THEN
        WithContext(export_private_key(a.arg, ext.proc), "Failed to export GPG private key")
    ELSE
        WithContext(access_secret(GcpSecretSpec(a.arg, a.version), ext.proc),
                    "Failed to access GCP secret")

\* The outcome recorded where PgpManager::decrypt was not called.
NoPgp ==
    [res |-> NoResult, cache |-> <<>>, trace |-> <<>>,
     unlock |-> [ok |-> FALSE, key |-> NoKey, err |-> "not called", cache |-> <<>>,
                 prompted |-> FALSE, fp |-> "", hit |-> FALSE]]

\* What one Content::get_value did: its result, the tool it invoked, whether it
\* called PgpManager::decrypt, with which key material and ciphertext, and what
\* that call did.
Resolved(res, tool, pgp, material, cipher, out) ==
    [res |-> res, tool |-> tool, pgp |-> pgp, material |-> material, cipher |-> cipher, out |-> out]

\* A resolution that did not reach PgpManager::decrypt.
ResolvedPlainly(f) == Resolved(f.res, f.tool, FALSE, <<>>, <<>>, NoPgp)

\* `pgp_manager.decrypt(&pgp_key, &encrypted_data)` did `out`.
ViaPgp(tool, pgp_key, encrypted_data, out) ==
    Resolved(IF out.res.ok THEN out.res ELSE Err("Failed to decrypt value with PGP key"),
             tool, TRUE, pgp_key, encrypted_data, out)

\* The arm of the other allocations, `alloc.get_value()` having returned pgp_key.
WithKey(pgp_key, encrypted_data, c, ext) ==
    IF ~pgp_key.res.ok THEN ResolvedPlainly(pgp_key)
    ELSE ViaPgp(pgp_key.tool, pgp_key.res.val, encrypted_data,
                PgpManager_decrypt(c, pgp_key.res.val, encrypted_data, ext.answer))

\* Content::Secure, `value.get_value()` having returned encrypted_data.
SecureValue(secret, encrypted_data, c, ext) ==
    IF ~encrypted_data.ok THEN ResolvedPlainly(Fetched(encrypted_data, "none"))
    ELSE IF secret.tag = "gpg" THEN
        ResolvedPlainly(WithContext(decrypt_data(encrypted_data.val, ext.proc),
                                    "Failed to decrypt value with GPG"))
    ELSE WithKey(SecretAllocation_get_value(secret, ext), encrypted_data.val, c, ext)

\* Mutant: the secret is fetched before the value is decoded.
Content_get_value_SecretFirst(content, c, ext) ==
    IF content.tag = "plain"
    THEN ResolvedPlainly(Fetched(EncodedValue_get_value(content.value), "none"))
    ELSE IF content.secret.tag = "gpg" \/ EncodedValue_get_value(content.value).ok
    THEN SecureValue(content.secret, EncodedValue_get_value(content.value), c, ext)
    ELSE WithKey(SecretAllocation_get_value(content.secret, ext), <<>>, c, ext)

\* Mutant: a Gpg allocation is handled as the other allocations are.
Content_get_value_GpgAsOthers(content, c, ext) ==
    IF content.tag = "plain"
    THEN ResolvedPlainly(Fetched(EncodedValue_get_value(content.value), "none"))
    ELSE IF ~EncodedValue_get_value(content.value).ok
    THEN ResolvedPlainly(Fetched(EncodedValue_get_value(content.value), "none"))
    ELSE WithKey(SecretAllocation_get_value(content.secret, ext),
                 EncodedValue_get_value(content.value).val, c, ext)

\* Content::get_value on the PGP cache c
Content_get_value(content, c, ext) ==
    IF content.tag = "plain"
    THEN ResolvedPlainly(Fetched(EncodedValue_get_value(content.value), "none"))
    ELSE SecureValue(content.secret, EncodedValue_get_value(content.value), c, ext)

\* ----------------------------------------------------------------- version
\* A version text is the sequence of its numbers: <<major, minor, patch>>, or
\* <<major, minor, patch, 1>> for a pre-release of it; a sequence of another
\* length is no semantic version.

Version_parse(s) ==
    IF Len(s) = 3 THEN [ok |-> TRUE, major |-> s[1], minor |-> s[2], patch |-> s[3], pre |-> FALSE]
    ELSE IF Len(s) = 4 THEN [ok |-> TRUE, major |-> s[1], minor |-> s[2], patch |-> s[3], pre |-> TRUE]
    ELSE [ok |-> FALSE, major |-> 0, minor |-> 0, patch |-> 0, pre |-> FALSE]

\* semver::Version's order: a > b
VersionGt(a, b) ==
    \/ a.major > b.major
    \/ a.major = b.major /\ a.minor > b.minor
    \/ a.major = b.major /\ a.minor = b.minor /\ a.patch > b.patch
    \/ a.major = b.major /\ a.minor = b.minor /\ a.patch = b.patch /\ ~a.pre /\ b.pre

Validated(ok, err, warned) == [ok |-> ok, err |-> err, warned |-> warned]

\* Mutant: the two versions are parsed but not compared.
validate_version_Uncompared(version, cli) ==
    IF ~Version_parse(cli).ok THEN Validated(FALSE, "Failed to parse CLI version", FALSE)
    ELSE IF cli = <<0, 0, 0>> THEN Validated(TRUE, "none", FALSE)
    ELSE IF ~Version_parse(version).ok THEN Validated(FALSE, "Invalid version format in config", FALSE)
    ELSE Validated(TRUE, "none", FALSE)

\* Manifest::validate_version in a binary built as version cli
validate_version(version, cli) ==
    LET cli_version == Version_parse(cli)
        config_version == Version_parse(version)
    IN  IF ~cli_version.ok THEN Validated(FALSE, "Failed to parse CLI version", FALSE)
        ELSE IF cli = <<0, 0, 0>> THEN Validated(TRUE, "none", FALSE)
        ELSE IF ~config_version.ok THEN Validated(FALSE, "Invalid version format in config", FALSE)
        ELSE IF config_version.major # cli_version.major THEN Validated(FALSE, "Major version mismatch", FALSE)
        ELSE IF VersionGt(config_version, cli_version) THEN Validated(FALSE, "Config version is newer than CLI version", FALSE)
        ELSE Validated(TRUE, "none", config_version.minor > cli_version.minor)

\* ------------------------------------------------------- the unlock run
\* Names of variables and paths of files are texts.

\* str::trim
RECURSIVE Trim(_)
Trim(s) ==
    IF s # <<>> /\ s[1] \in {9, 10, 11, 12, 13, 32} THEN Trim(Tail(s))
    ELSE IF s # <<>> /\ s[Len(s)] \in {9, 10, 11, 12, 13, 32} THEN Trim(SubSeq(s, 1, Len(s) - 1))
    ELSE s

\* str::lines: split at "\n", a "\r" before it dropped, no empty last line.
Lines(value) ==
    LET raw == Split(value, 10)
        cut == IF raw[Len(raw)] = <<>> THEN SubSeq(raw, 1, Len(raw) - 1) ELSE raw
    IN  [i \in 1..Len(cut) |->
            IF cut[i] # <<>> /\ cut[i][Len(cut[i])] = 13
            THEN SubSeq(cut[i], 1, Len(cut[i]) - 1) ELSE cut[i]]

\* A map with key k set to v.
Insert(map, k, v) == [x \in DOMAIN map \cup {k} |-> IF x = k THEN v ELSE map[x]]

\* parse_env_lines with the callback of the unlock run: env_vars.insert
RECURSIVE InsertLines(_, _)
InsertLines(map, lines) ==
    IF lines = <<>> THEN map
    ELSE
        LET line == Head(lines)
            has == \E i \in 1..Len(line) : line[i] = 61
            pos == CHOOSE i \in 1..Len(line) : line[i] = 61 /\ \A j \in 1..(i - 1) : line[j] # 61
            key == Trim(SubSeq(line, 1, pos - 1))
            val == Trim(SubSeq(line, pos + 1, Len(line)))
        IN  IF has /\ key # <<>> THEN InsertLines(Insert(map, key, val), Tail(lines))
            ELSE InsertLines(map, Tail(lines))

parse_env_lines(map, value) == InsertLines(map, Lines(value))

\* FromLocation::GCS and FromLocation::File
FromGCS(secret, version) == [tag |-> "gcs", arg |-> secret, version |-> version]

FromFile(path) == [tag |-> "file", arg |-> path, version |-> None]

\* What the `from` loop does with the text a location returned.
FromFetched(got, map) ==
    [res |-> got.res, tool |-> got.tool,
     env |-> IF got.res.ok THEN parse_env_lines(map, got.res.val) ELSE map]

\* One iteration of the `from` loop: the fetch and the variables it adds.
from_location(loc, map, ext) ==
    FromFetched(IF loc.tag = "gcs" THEN access_secret(GcpSecretSpec(loc.arg, loc.version), ext.proc)
                ELSE Fetched(ext.file, "file_read"),
                map)

\* The environment of the parent process: PATH, HOME and V1.
NamePATH == <<80, 65, 84, 72>>

NameHOME == <<72, 79, 77, 69>>

NameV1 == <<86, 49>>

ParentEnv == [n \in {NamePATH, NameHOME, NameV1} |-> IF n = NameV1 THEN <<112>> ELSE <<47>>]

\* Regex::new on the patterns of the model: "(" does not compile.
Regex_new(pattern) == pattern # "("

\* Regex::is_match for "^PATH$", "^V" and "H": a pattern without anchors
\* matches anywhere in the name.
is_match(pattern, name) ==
    IF pattern = "^PATH$" THEN name = NamePATH
    ELSE IF pattern = "^V" THEN name # <<>> /\ name[1] = 86
    ELSE IF pattern = "H" THEN \E i \in 1..Len(name) : name[i] = 72
    ELSE FALSE

\* Command::env over an environment: later values override.
Overlay(base, map) == [n \in DOMAIN base \cup DOMAIN map |-> IF n \in DOMAIN map THEN map[n] ELSE base[n]]

NoEnv == [n \in {} |-> <<>>]

NoChild == [started |-> FALSE, env |-> NoEnv, code |-> 0]

\* Mutant: the keep list does not clear the environment of the child.
exec_command_InheritAll(cmd_args, map, keep_env_vars, spawn, code) ==
    IF cmd_args = <<>> THEN [ok |-> FALSE, err |-> "No command provided", child |-> NoChild]
    ELSE IF keep_env_vars # None /\ \E i \in 1..Len(keep_env_vars[1]) : ~Regex_new(keep_env_vars[1][i])
         THEN [ok |-> FALSE, err |-> "Failed to compile regex patterns", child |-> NoChild]
    ELSE IF ~spawn THEN [ok |-> FALSE, err |-> "Failed to execute command", child |-> NoChild]
    ELSE [ok |-> TRUE, err |-> "none",
          child |-> [started |-> TRUE, env |-> Overlay(ParentEnv, map), code |-> code]]

\* Mutant: a file that is there is written over, with or without --force.
RefusesExisting_Never(exists, forced) == FALSE

\* `absolute_path.exists() && !force` of the files loop
RefusesExisting(exists, forced) == exists /\ ~forced

\* exec_command: the child's environment and exit code (-1: killed by a
\* signal), or an error; spawn tells whether the program could be started.
exec_command(cmd_args, map, keep_env_vars, spawn, code) ==
    IF cmd_args = <<>> THEN [ok |-> FALSE, err |-> "No command provided", child |-> NoChild]
    ELSE IF keep_env_vars # None /\ \E i \in 1..Len(keep_env_vars[1]) : ~Regex_new(keep_env_vars[1][i])
         THEN [ok |-> FALSE, err |-> "Failed to compile regex patterns", child |-> NoChild]
    ELSE
        LET kept == {n \in DOMAIN ParentEnv :
                        \E i \in 1..Len(keep_env_vars[1]) : is_match(keep_env_vars[1][i], n)}
            base == IF keep_env_vars = None THEN ParentEnv ELSE [n \in kept |-> ParentEnv[n]]
        IN  IF ~spawn THEN [ok |-> FALSE, err |-> "Failed to execute command", child |-> NoChild]
            ELSE [ok |-> TRUE, err |-> "none",
                  child |-> [started |-> TRUE, env |-> Overlay(base, map), code |-> code]]

\* ---------------------------------------------------- tagged-union codec

\* A variant of an enum: its identifier, the shape of its fields ("unit",
\* "single", "named", or "multi" for several unnamed fields) and the kind of
\* value its payload deserializes from ("null", "string" or "map").
Variant(name, shape, takes) == [name |-> name, shape |-> shape, takes |-> takes]

\* KELVIN SIGN, U+212A, whose lowercase is "k"
KelvinSign == <<226, 132, 170>>

\* str::to_lowercase: the ASCII letters and, of the other letters, the one
\* that lowercases to an ASCII letter of its own
RECURSIVE to_lowercase(_)
to_lowercase(s) ==
    IF s = <<>> THEN <<>>
    ELSE IF Len(s) >= 3 /\ SubSeq(s, 1, 3) = KelvinSign
         THEN <<107>> \o to_lowercase(SubSeq(s, 4, Len(s)))
         ELSE <<IF s[1] \in 65..90 THEN s[1] + 32 ELSE s[1]>> \o to_lowercase(Tail(s))

\* variant_names of generate_hocon_enum_impl
variant_names(variants) == [i \in 1..Len(variants) |-> to_lowercase(variants[i].name)]

\* generate_hocon_enum_impl: the implementation derived for an enum, or the
\* compile error of generate_variant_match_arm
generate_hocon_enum_impl(variants) ==
    IF \E i \in 1..Len(variants) : variants[i].shape = "multi"
    THEN [ok |-> FALSE, variants |-> <<>>, names |-> <<>>,
          err |-> "Multiple unnamed fields are not supported"]
    ELSE [ok |-> TRUE, variants |-> variants, names |-> variant_names(variants),
          err |-> "none"]

\* What decoding returns: the variant constructed (0 for none), the error, the
\* name and the list it quotes, and how many values were read from the map.
Decoded(variant, err, named, expected, read) ==
    [ok |-> err = "none", variant |-> variant, err |-> err, named |-> named,
     expected |-> expected, read |-> read]

\* The match arm of variant `arm`: map.next_value()? into the type of the
\* payload, then the constructor.
MatchArm(impl, arm, value) ==
    IF value = impl.variants[arm].takes
    THEN Decoded(arm, "none", <<>>, <<>>, 1)
    ELSE Decoded(0, "invalid type", <<>>, <<>>, 1)

\* `match`: the first arm whose pattern is `name`, 0 for the wildcard arm
FirstArm(names, name) ==
    IF \E i \in 1..Len(names) : names[i] = name
    THEN CHOOSE i \in 1..Len(names) :
            names[i] = name /\ \A j \in 1..(i - 1) : names[j] # name
    ELSE 0

\* The arm the match took.
ArmTaken(impl, arm, variant_name, value) ==
    IF arm = 0
    THEN Decoded(0, "unknown variant", variant_name, impl.names, 0)
    ELSE MatchArm(impl, arm, value)

\* Mutant: a key that names no variant selects the first one.
deserialize_from_map_DefaultArm(impl, variant_name, value) ==
    ArmTaken(impl, IF FirstArm(impl.names, to_lowercase(variant_name)) = 0
                   THEN 1 ELSE FirstArm(impl.names, to_lowercase(variant_name)),
             variant_name, value)

\* The derived HoconEnum::deserialize_from_map
deserialize_from_map(impl, variant_name, value) ==
    ArmTaken(impl, FirstArm(impl.names, to_lowercase(variant_name)), variant_name, value)

\* HoconEnumVisitor::visit_map on a map given as the sequence of its entries
visit_map(impl, map) ==
    IF map # <<>>
    THEN deserialize_from_map(impl, map[1].key, map[1].value)
    ELSE Decoded(0, "expected enum variant", <<>>, <<>>, 0)

\* ------------------------------------------------------------------- state

\* Calls made on one PgpManager in the PgpManager check.
MaxCalls == 3

\* Version numbers run from 0 to MaxVer.
MaxVer == 2

\* Loop iterations of one unlock run: entries of profile.env.from, of
\* profile.env.vars and of profile.files together.
MaxItems == 3

\* Backend calls in the backend check.
MaxBackend == 3

\* Maps decoded with one derived implementation.
MaxDecoded == 2

VARIABLES
    pc,               \* where the process is
    encIn,            \* the EncodedValue get_value is applied to
    encOut,           \* its result
    cache,            \* PgpManager.cache: fingerprint -> CachedKey
    prompts,          \* fingerprint -> how often the password prompt was invoked for it
    answered,         \* fingerprint -> how often the prompt returned a password for it
    nCalls,           \* calls of PgpManager::decrypt so far
    lastCall,         \* the latest call of PgpManager::decrypt: its arguments and outcome
    cliVersion,       \* CARGO_PKG_VERSION of the binary
    manifestVersion,  \* Manifest.version
    validated,        \* what validate_version returned
    force,            \* --force
    fromDone,         \* entries of profile.env.from iterated so far
    varsDone,         \* keys of profile.env.vars iterated so far
    filesDone,        \* keys of profile.files iterated so far
    disk,             \* path -> the file there: by whom it was written, and its content
    env_vars,         \* the variables resolved so far
    created_files,    \* the files this run wrote
    calls,            \* tool -> how often it was invoked
    lastItem,         \* the latest Content::get_value call of the run
    nFailed,          \* Content::get_value calls of the run that returned an error
    child,            \* the child process
    printed,          \* the variables printed, if they were
    failure,          \* why the run failed
    exec_status,      \* the child's exit code, if there was a child
    exit_code,        \* the exit code of the process, once it ended
    secret_cache,     \* the cache of access_secret_cached_with: cache key -> value
    backendCall,      \* the latest backend call: its arguments, the process and the outcome
    nBackend,         \* backend calls so far
    spawned,          \* external processes run so far
    derived,          \* the HoconEnum implementation derived for the enum
    decodeCall,       \* the latest map decoded, and the outcome
    nDecoded,         \* maps decoded so far
    execIn,           \* the arguments exec_command is called with
    execOut           \* what it returned

PgpVars == <<cache, prompts, answered, nCalls, lastCall>>

EncVars == <<encIn, encOut>>

VerVars == <<cliVersion, manifestVersion, validated>>

RunVars == <<force, fromDone, varsDone, filesDone, disk, env_vars, created_files, calls,
             lastItem, nFailed, child, printed, failure, exec_status, exit_code>>

BackendVars == <<secret_cache, backendCall, nBackend, spawned>>

CodecVars == <<derived, decodeCall, nDecoded>>

ExecVars == <<execIn, execOut>>

vars == <<pc, EncVars, PgpVars, VerVars, RunVars, BackendVars, CodecVars, ExecVars>>

Fingerprints == {CertCatalogue[i].fp : i \in 1..Len(CertCatalogue)}

EmptyCache == [f \in {} |-> CachedKey(NoCert, None)]

NoCall == [material |-> <<>>, cipher |-> <<>>, out |-> NoPgp]

\* PgpManager::new, no call made yet.
PgpFresh ==
    /\ cache = EmptyCache
    /\ prompts = [f \in Fingerprints |-> 0]
    /\ answered = [f \in Fingerprints |-> 0]
    /\ nCalls = 0
    /\ lastCall = NoCall

\* The bookkeeping of one PgpManager::decrypt call that did `out`.
PgpRecord(private_key_asc, encrypted_data, answer, out) ==
    /\ cache' = out.cache
    /\ prompts' = IF out.unlock.prompted THEN [prompts EXCEPT ![out.unlock.fp] = @ + 1] ELSE prompts
    /\ answered' = IF out.unlock.prompted /\ answer.ok
                   THEN [answered EXCEPT ![out.unlock.fp] = @ + 1] ELSE answered
    /\ nCalls' = nCalls + 1
    /\ lastCall' = [material |-> private_key_asc, cipher |-> encrypted_data, out |-> out]

PgpCall(private_key_asc, encrypted_data, answer) ==
    PgpRecord(private_key_asc, encrypted_data, answer,
              PgpManager_decrypt(cache, private_key_asc, encrypted_data, answer))

NoAnswer == [ok |-> FALSE, pwd |-> ""]

\* The answers the prompt can give where it is invoked; one stands for all
\* where it is not.
AnswersFor(private_key_asc) ==
    IF unlock_key(cache, private_key_asc, NoAnswer).prompted THEN PromptAnswers ELSE {NoAnswer}

NotValidated == Validated(FALSE, "not called", FALSE)

\* The variables of the profile: "V1" and "V2".
VarNames == {<<86, 49>>, <<86, 50>>}

\* The files of the profile: "f1" and "f2".
FilePaths == {<<102, 49>>, <<102, 50>>}

Tools == {"file_read", "gpg_export", "gpg_decrypt", "gcloud"}

NoFile == [by |-> "none", data |-> <<>>]

\* The n-th Content::get_value call of the run: for which loop, on which
\* Content, and whether it returned Ok.
Item(n, kind, content, ok) == [n |-> n, kind |-> kind, content |-> content, ok |-> ok]

NoItem == Item(0, "none", Plain(Literal(<<>>)), FALSE)

\* No version is being validated.
VerIdle ==
    /\ cliVersion = <<0, 0, 0>>
    /\ manifestVersion = <<0, 0, 0>>
    /\ validated = NotValidated

\* No unlock run is under way.
RunIdle ==
    /\ force = FALSE
    /\ fromDone = 0
    /\ varsDone = {}
    /\ filesDone = {}
    /\ disk = [p \in FilePaths |-> NoFile]
    /\ env_vars = NoEnv
    /\ created_files = <<>>
    /\ calls = [tl \in Tools |-> 0]
    /\ lastItem = NoItem
    /\ nFailed = 0
    /\ child = NoChild
    /\ printed = None
    /\ failure = "none"
    /\ exec_status = None
    /\ exit_code = None

EmptySecretCache == [k \in {} |-> <<>>]

\* A backend call: the operation, its argument and version, what the process
\* did, and the outcome.
BackendCall(op, arg, version, proc, out) ==
    [op |-> op, arg |-> arg, version |-> version, proc |-> proc, out |-> out]

NoBackendCall == BackendCall("none", <<>>, None, ProcOut("none", FALSE, <<>>, <<>>), Fetched(NoResult, "none"))

\* No backend has been called.
BackendIdle ==
    /\ secret_cache = EmptySecretCache
    /\ backendCall = NoBackendCall
    /\ nBackend = 0
    /\ spawned = 0

\* Nothing was derived.
NotDerived == [ok |-> FALSE, variants |-> <<>>, names |-> <<>>, err |-> "not derived"]

\* A decoding of `map`, and its outcome.
DecodeCall(map, out) == [map |-> map, out |-> out]

NoDecodeCall == DecodeCall(<<>>, Decoded(0, "not called", <<>>, <<>>, 0))

\* The codec has not been used.
CodecIdle ==
    /\ derived = NotDerived
    /\ decodeCall = NoDecodeCall
    /\ nDecoded = 0

\* The arguments of a call of exec_command, with what the operating system
\* will do: spawn tells whether the program can be started, code is the exit
\* code of the child.
ExecIn(cmd_args, map, keep_env_vars, spawn, code) ==
    [cmd_args |-> cmd_args, env_vars |-> map, keep |-> keep_env_vars, spawn |-> spawn,
     code |-> code]

NoExecIn == ExecIn(<<>>, NoEnv, None, FALSE, 0)

NoExecOut == [ok |-> FALSE, err |-> "not called", child |-> NoChild]

\* exec_command is not called.
ExecIdle ==
    /\ execIn = NoExecIn
    /\ execOut = NoExecOut

\* ---- EncodedValue::get_value on one input

InitEnc ==
    /\ pc = "enc"
    /\ encIn \in EncInputs
    /\ encOut = NoResult
    /\ PgpFresh /\ VerIdle /\ RunIdle /\ BackendIdle /\ CodecIdle /\ ExecIdle

EncGetValue ==
    /\ pc = "enc"
    /\ encOut' = EncodedValue_get_value(encIn)
    /\ pc' = "encDone"
    /\ UNCHANGED <<encIn, PgpVars, VerVars, RunVars, BackendVars, CodecVars, ExecVars>>

NextEnc == EncGetValue

SpecEnc == InitEnc /\ [][NextEnc]_vars

\* ---- any sequence of PgpManager::decrypt calls on one PgpManager

EncIdle ==
    /\ encIn = Literal(<<>>)
    /\ encOut = NoResult

InitPgp ==
    /\ pc = "pgp"
    /\ EncIdle /\ BackendIdle /\ CodecIdle /\ ExecIdle /\ PgpFresh /\ VerIdle /\ RunIdle

PgpDecrypt ==
    /\ pc = "pgp"
    /\ nCalls < MaxCalls
    /\ \E m \in Materials, c \in Ciphers : \E answer \in AnswersFor(m) : PgpCall(m, c, answer)
    /\ UNCHANGED <<pc, EncVars, BackendVars, CodecVars, ExecVars, VerVars, RunVars>>

NextPgp == PgpDecrypt

SpecPgp == InitPgp /\ [][NextPgp]_vars

\* ---- Manifest::validate_version on one manifest version, in one binary

\* The versions a.b.c and their pre-releases.
VersionTexts ==
    {<<a, b, c>> : a \in 0..MaxVer, b \in 0..MaxVer, c \in 0..MaxVer}
    \cup {<<a, b, c, 1>> : a \in 0..MaxVer, b \in 0..MaxVer, c \in 0..MaxVer}

\* "1.2" and "" are no versions.
BadVersionTexts == {<<1, 2>>, <<>>}

InitVer ==
    /\ pc = "ver"
    /\ cliVersion \in VersionTexts
    /\ manifestVersion \in VersionTexts \cup BadVersionTexts
    /\ validated = NotValidated
    /\ EncIdle /\ BackendIdle /\ CodecIdle /\ ExecIdle /\ PgpFresh /\ RunIdle

ValidateVersion ==
    /\ pc = "ver"
    /\ validated' = validate_version(manifestVersion, cliVersion)
    /\ pc' = "verDone"
    /\ UNCHANGED <<cliVersion, manifestVersion, EncVars, BackendVars, CodecVars, ExecVars, PgpVars, RunVars>>

NextVer == ValidateVersion

SpecVer == InitVer /\ [][NextVer]_vars

\* ---- any sequence of calls of the backends, with one cache for
\* access_secret_cached_with

\* "versions"
VersionsWord == <<118, 101, 114, 115, 105, 111, 110, 115>>

\* Resource identifiers: projects/p/secrets/k, with /versions/1, with /x/y,
\* with /versions only, projects//secrets/, projects/p/secrets,
\* secrets/p/secrets/k, k, and the empty text.
Fqns ==
    {ProjectsWord \o <<47, 112, 47>> \o SecretsWord \o <<47, 107>>,
     ProjectsWord \o <<47, 112, 47>> \o SecretsWord \o <<47, 107, 47>> \o VersionsWord \o <<47, 49>>,
     ProjectsWord \o <<47, 112, 47>> \o SecretsWord \o <<47, 107, 47, 120, 47, 121>>,
     ProjectsWord \o <<47, 112, 47>> \o SecretsWord \o <<47, 107, 47>> \o VersionsWord,
     ProjectsWord \o <<47, 47>> \o SecretsWord \o <<47>>,
     ProjectsWord \o <<47, 112, 47>> \o SecretsWord,
     SecretsWord \o <<47, 112, 47>> \o SecretsWord \o <<47, 107>>,
     <<107>>,
     <<>>}

\* The identifiers used with the cache: two that parse, one of them ending
\* in "#latest", and one that does not parse.
CachedFqns ==
    {ProjectsWord \o <<47, 112, 47>> \o SecretsWord \o <<47, 107>>,
     ProjectsWord \o <<47, 112, 47>> \o SecretsWord \o <<47, 107, 35>> \o LatestWord,
     <<107>>}

\* Absent, "latest", "1" and "AWSCURRENT"
SecretVersions == {None, Some(LatestWord), Some(<<49>>)}

AwsVersions == {None, Some(<<49>>), Some(<<65, 87, 83, 67, 85, 82, 82, 69, 78, 84>>)}

\* What the external tool can do: it cannot be started, it exits non-zero
\* with a standard error that is or is not UTF-8, or it exits with zero and
\* an output.
TextOuts == {<<118, 10>>, <<119>>, <<255>>, <<>>, <<32, 10>>, <<194, 160>>}

BackendProcs ==
    {ProcOut("spawn", FALSE, <<>>, <<>>)}
    \cup {ProcOut("ok", FALSE, <<111>>, e) : e \in {<<101>>, <<255, 101>>, <<>>}}
    \cup {ProcOut("ok", TRUE, o, <<101>>) : o \in TextOuts}

\* gpg --decrypt can also fail while it is fed or awaited.
DecryptProcs == BackendProcs \cup {ProcOut("stdin", FALSE, <<>>, <<>>), ProcOut("wait", FALSE, <<>>, <<>>)}

CachedProcs ==
    {ProcOut("ok", FALSE, <<>>, <<101>>), ProcOut("ok", TRUE, <<118, 10>>, <<>>),
     ProcOut("ok", TRUE, <<119>>, <<>>)}

InitBackend ==
    /\ pc = "backend"
    /\ EncIdle /\ BackendIdle /\ CodecIdle /\ ExecIdle /\ PgpFresh /\ VerIdle /\ RunIdle

\* The bookkeeping of a backend call that did `out`.
BackendRecord(op, arg, version, proc, out) ==
    /\ backendCall' = BackendCall(op, arg, version, proc, out)
    /\ nBackend' = nBackend + 1
    /\ spawned' = spawned + out.runs

\* SecretAllocation::get_value on a Gpg allocation, called once:
\* GpgManager::export_private_key under its context
GpgExport ==
    /\ pc = "backend" /\ nBackend < MaxBackend
    /\ \E proc \in BackendProcs :
          BackendRecord("gpg_export", <<70>>, None, proc,
                        SecretAllocation_get_value(AllocGpg(<<70>>),
                                                   Ext(Err("not read"), proc, NoAnswer)))
    /\ UNCHANGED <<pc, secret_cache, EncVars, PgpVars, VerVars, RunVars, CodecVars, ExecVars>>

\* GpgManager::decrypt_data, called once
GpgDecrypt ==
    /\ pc = "backend" /\ nBackend < MaxBackend
    /\ \E proc \in DecryptProcs :
          BackendRecord("gpg_decrypt", CipherOf(1), None, proc, decrypt_data(CipherOf(1), proc))
    /\ UNCHANGED <<pc, secret_cache, EncVars, PgpVars, VerVars, RunVars, CodecVars, ExecVars>>

\* GcpSecretManager::access_secret, called once
GcpAccess ==
    /\ pc = "backend" /\ nBackend < MaxBackend
    /\ \E fqn \in Fqns, version \in {None, Some(<<49>>)}, proc \in BackendProcs :
          BackendRecord("gcloud", fqn, version, proc,
                        access_secret(GcpSecretSpec(fqn, version), proc))
    /\ UNCHANGED <<pc, secret_cache, EncVars, PgpVars, VerVars, RunVars, CodecVars, ExecVars>>

\* AwsSecretManager::access_secret, called once
AwsAccess ==
    /\ pc = "backend" /\ nBackend < MaxBackend
    /\ \E version \in AwsVersions, proc \in BackendProcs :
          BackendRecord("aws", <<115>>, version, proc,
                        aws_access_secret(AwsSecretSpec(<<115>>, version, None), proc))
    /\ UNCHANGED <<pc, secret_cache, EncVars, PgpVars, VerVars, RunVars, CodecVars, ExecVars>>

\* What a call of access_secret_cached_with leaves behind.
CachedResult(fqn, version, proc, out) ==
    /\ BackendRecord("gcloud_cached", fqn, version, proc, out)
    /\ secret_cache' = out.cache

\* GcpSecretManager::access_secret_cached_with, called once
GcpAccessCached ==
    /\ pc = "backend" /\ nBackend < MaxBackend
    /\ \E fqn \in CachedFqns, version \in SecretVersions, proc \in CachedProcs :
          CachedResult(fqn, version, proc,
                       access_secret_cached_with(secret_cache, GcpSecretSpec(fqn, version), proc))
    /\ UNCHANGED <<pc, EncVars, PgpVars, VerVars, RunVars, CodecVars, ExecVars>>

NextBackend ==
    \/ GpgExport
    \/ GpgDecrypt
    \/ GcpAccess
    \/ AwsAccess
    \/ GcpAccessCached

SpecBackend == InitBackend /\ [][NextBackend]_vars

\* ---- the codec: an enum is derived, then maps are decoded into it

\* enum SecretAllocation { Literal(..), File(..), Gpg { .. }, Gcp { .. } }
SecretAllocationVariants ==
    <<Variant(<<76, 105, 116, 101, 114, 97, 108>>, "single", "map"), Variant(<<70, 105, 108, 101>>, "single", "string"),
      Variant(<<71, 112, 103>>, "named", "map"), Variant(<<71, 99, 112>>, "named", "map")>>

\* enum Secret { PGP(..) }
SecretVariants == <<Variant(<<80, 71, 80>>, "single", "map")>>

\* An enum with a unit variant and a variant whose name is one letter.
SwitchVariants == <<Variant(<<79, 102, 102>>, "unit", "null"), Variant(<<75>>, "single", "string")>>

\* An enum with a variant of two unnamed fields.
PairVariants == <<Variant(<<79, 110, 101>>, "single", "string"), Variant(<<84, 119, 111>>, "multi", "map")>>

HoconEnums == {SecretAllocationVariants, SecretVariants, SwitchVariants, PairVariants}

\* The keys of the maps decoded.
HoconKeys ==
    {<<103, 112, 103>>, <<71, 80, 71>>, <<71, 112, 103>>, <<103, 112, 120>>, <<102, 105, 108, 101>>, <<112, 103, 112>>, <<80, 71, 80>>, <<111, 102, 102>>, <<98, 111, 103, 117, 115>>, <<107>>, <<75>>, KelvinSign, <<>>}

\* An entry of a map.
Entry(key, value) == [key |-> key, value |-> value]

\* The maps decoded: of no, one and two entries.
HoconMaps ==
    {<<>>}
    \cup {<<Entry(k, v)>> : k \in HoconKeys, v \in {"null", "string", "map"}}
    \cup {<<Entry(k, "map"), Entry(<<103, 112, 103>>, "map")>> : k \in {<<98, 111, 103, 117, 115>>, <<70, 73, 76, 69>>, <<103, 99, 112>>}}

InitCodec ==
    /\ pc = "derive"
    /\ EncIdle /\ BackendIdle /\ CodecIdle /\ ExecIdle /\ PgpFresh /\ VerIdle /\ RunIdle

\* #[derive(HoconEnum)] on one enum
DeriveHoconEnum ==
    /\ pc = "derive"
    /\ \E variants \in HoconEnums : derived' = generate_hocon_enum_impl(variants)
    /\ pc' = "decode"
    /\ UNCHANGED <<decodeCall, nDecoded, EncVars, PgpVars, VerVars, RunVars, BackendVars, ExecVars>>

\* deserialize_hocon_enum on one map; an enum that did not derive does not
\* compile.
DeserializeHoconEnum ==
    /\ pc = "decode" /\ derived.ok /\ nDecoded < MaxDecoded
    /\ \E map \in HoconMaps : decodeCall' = DecodeCall(map, visit_map(derived, map))
    /\ nDecoded' = nDecoded + 1
    /\ UNCHANGED <<pc, derived, EncVars, PgpVars, VerVars, RunVars, BackendVars, ExecVars>>

NextCodec ==
    \/ DeriveHoconEnum
    \/ DeserializeHoconEnum

SpecCodec == InitCodec /\ [][NextCodec]_vars

\* ---- exec_command on one command, one map of resolved variables and one
\* keep list

\* The resolved variables: V1, which the parent has too, V2 and PATH.
ResolvedMaps ==
    {[n \in names |-> <<111>>] : names \in SUBSET {NameV1, <<86, 50>>, NamePATH}}

KeepLists ==
    {None, Some(<<>>), Some(<<"H">>), Some(<<"^PATH$", "^V">>), Some(<<"^PATH$", "(">>)}

InitExec ==
    /\ pc = "exec_command"
    /\ execIn \in {ExecIn(c, m, k, sp, code) :
                      c \in {<<>>, <<"prog", "arg">>}, m \in ResolvedMaps, k \in KeepLists,
                      sp \in BOOLEAN, code \in {0, 3}}
    /\ execOut = NoExecOut
    /\ EncIdle /\ BackendIdle /\ CodecIdle /\ PgpFresh /\ VerIdle /\ RunIdle

\* exec_command, called once
ExecCommand ==
    /\ pc = "exec_command"
    /\ execOut' = exec_command(execIn.cmd_args, execIn.env_vars, execIn.keep, execIn.spawn,
                               execIn.code)
    /\ pc' = "exec_returned"
    /\ UNCHANGED <<execIn, EncVars, PgpVars, VerVars, RunVars, BackendVars, CodecVars>>

NextExec == ExecCommand

SpecExec == InitExec /\ [][NextExec]_vars

\* ---- the unlock run: ClapArgumentLoader::load, then main's Command::Unlock
\* The manifest is read-only: the entry a loop reaches is drawn when the loop
\* reaches it, and a loop may end after any number of entries up to its bound.

RunCliVersions == {<<0, 0, 0>>, <<1, 1, 0>>}

RunManifestVersions == {<<1, 1, 0>>, <<2, 0, 0>>}

\* "projects/p/secrets/k" and "k"
GoodFqn == ProjectsWord \o <<47, 112, 47>> \o SecretsWord \o <<47, 107>>

BadFqn == <<107>>

\* A text that is no base64: "Q".
BadBase64 == Base64(<<81>>)

RunValues == {Literal(CipherOf(1)), BadBase64}

RunAllocations ==
    {AllocLiteral(Literal(MaterialOf(1))), AllocFile(<<107>>), AllocGpg(<<70>>),
     AllocGcp(GoodFqn, None)}

RunContents ==
    {Plain(Literal(<<120>>)), Plain(Base64(Base64Encode(<<65>>))), Plain(BadBase64)}
    \cup {Secure(a, v) : a \in RunAllocations, v \in RunValues}

Unread == Err("not read")

NotRun == ProcOut("none", FALSE, <<>>, <<>>)

\* std::fs::read_to_string of a key file
FileReads == {Err("No such file")} \cup {Ok(m) : m \in {MaterialOf(2), BadMaterial}}

\* gpg or gcloud, run once
ProcOuts ==
    {ProcOut("spawn", FALSE, <<>>, <<>>), ProcOut("stdin", FALSE, <<>>, <<>>),
     ProcOut("ok", FALSE, <<>>, <<101>>),
     ProcOut("ok", TRUE, MaterialOf(7) \o <<10>>, <<>>), ProcOut("ok", TRUE, <<255>>, <<>>)}

\* What the outside world can answer to the resolution of a Content.
ExtsFor(content) ==
    LET secure == content.tag = "secure"
    IN  {Ext(f, p, a) :
            f \in IF secure /\ content.secret.tag = "file" THEN FileReads ELSE {Unread},
            p \in IF secure /\ content.secret.tag \in {"gpg", "gcp"} THEN ProcOuts ELSE {NotRun},
            a \in IF secure /\ content.secret.tag # "gpg" THEN PromptAnswers ELSE {NoAnswer}}

\* "V1=o\nK = b\r\n"
EnvText == <<86, 49, 61, 111, 10, 75, 32, 61, 32, 98, 13, 10>>

FromLocations == {FromGCS(GoodFqn, None), FromGCS(BadFqn, None), FromFile(<<101>>)}

FromExts(loc) ==
    {Ext(f, p, NoAnswer) :
        f \in IF loc.tag = "file" THEN {Err("No such file"), Ok(EnvText)} ELSE {Unread},
        p \in IF loc.tag = "gcs"
              THEN {ProcOut("ok", FALSE, <<>>, <<101>>), ProcOut("ok", TRUE, EnvText, <<>>),
                    ProcOut("ok", TRUE, <<61, 120>>, <<>>)}
              ELSE {NotRun}}

\* A file that was there before the run.
OldFile == [by |-> "other", data |-> <<111>>]

InitRun ==
    /\ pc = "load"
    /\ cliVersion \in RunCliVersions
    /\ manifestVersion \in RunManifestVersions
    /\ validated = NotValidated
    /\ force \in BOOLEAN
    /\ fromDone = 0
    /\ varsDone = {}
    /\ filesDone = {}
    /\ disk \in [FilePaths -> {NoFile, OldFile}]
    /\ env_vars = NoEnv
    /\ created_files = <<>>
    /\ calls = [tl \in Tools |-> 0]
    /\ lastItem = NoItem
    /\ nFailed = 0
    /\ child = NoChild
    /\ printed = None
    /\ failure = "none"
    /\ exec_status = None
    /\ exit_code = None
    /\ EncIdle /\ BackendIdle /\ CodecIdle /\ ExecIdle /\ PgpFresh

\* main returns Err(..): the process ends with exit code 1.
Fail(why) ==
    /\ pc' = "failed"
    /\ failure' = why
    /\ exit_code' = Some(1)

\* ClapArgumentLoader::load for `unlock`: the config is read and parsed, its
\* version validated and the profile looked up.
Load ==
    /\ pc = "load"
    /\ \E config \in {"ok", "unreadable", "malformed", "no profile"} :
          IF config \in {"unreadable", "malformed"}
          THEN Fail("load") /\ validated' = validated
          ELSE /\ validated' = validate_version(manifestVersion, cliVersion)
               /\ IF ~validated'.ok \/ config = "no profile"
                  THEN Fail("load")
                  ELSE pc' = "from" /\ UNCHANGED <<failure, exit_code>>
    /\ UNCHANGED <<cliVersion, manifestVersion, EncVars, BackendVars, CodecVars, ExecVars, PgpVars>>
    /\ UNCHANGED <<force, fromDone, varsDone, filesDone, disk, env_vars, created_files, calls,
                   lastItem, nFailed, child, printed, exec_status>>

\* Loop iterations so far.
ItemsDone == fromDone + Cardinality(varsDone) + Cardinality(filesDone)

\* The bookkeeping of a backend call.
Invoked(tool) == calls' = IF tool = "none" THEN calls ELSE [calls EXCEPT ![tool] = @ + 1]

\* The bookkeeping of a Content::get_value call that did r.
Got(kind, content, r, ext) ==
    /\ IF r.pgp THEN PgpRecord(r.material, r.cipher, ext.answer, r.out) ELSE UNCHANGED PgpVars
    /\ Invoked(r.tool)
    /\ lastItem' = Item(lastItem.n + 1, kind, content, r.res.ok)
    /\ nFailed' = IF r.res.ok THEN nFailed ELSE nFailed + 1

\* What the `from` loop does with the outcome f of one location.
FromResult(f) ==
    /\ Invoked(f.tool)
    /\ env_vars' = f.env
    /\ IF f.res.ok THEN UNCHANGED <<pc, failure, exit_code>> ELSE Fail("from")

\* One iteration of `for from_location in profile.env.from.iter()`.
FromStep ==
    /\ pc = "from"
    /\ ItemsDone < MaxItems
    /\ \E loc \in FromLocations : \E ext \in FromExts(loc) :
          FromResult(from_location(loc, env_vars, ext))
    /\ fromDone' = fromDone + 1
    /\ UNCHANGED <<EncVars, BackendVars, CodecVars, ExecVars, PgpVars, VerVars>>
    /\ UNCHANGED <<force, varsDone, filesDone, disk, created_files, lastItem, nFailed, child,
                   printed, exec_status>>

\* The `from` loop ends.
FromEnd ==
    /\ pc = "from"
    /\ pc' = "vars"
    /\ UNCHANGED <<EncVars, BackendVars, CodecVars, ExecVars, PgpVars, VerVars, RunVars>>

\* Mutant: the vars loop reports a failed variable and goes on.
VarResult_Continue(key, content, ext, r) ==
    /\ Got("var", content, r, ext)
    /\ varsDone' = varsDone \cup {key}
    /\ env_vars' = IF r.res.ok THEN Insert(env_vars, key, r.res.val) ELSE env_vars
    /\ UNCHANGED <<pc, failure, exit_code>>

\* What the vars loop does with the result r of key's Content.
VarResult(key, content, ext, r) ==
    /\ Got("var", content, r, ext)
    /\ varsDone' = varsDone \cup {key}
    /\ IF r.res.ok
       THEN env_vars' = Insert(env_vars, key, r.res.val) /\ UNCHANGED <<pc, failure, exit_code>>
       ELSE env_vars' = env_vars /\ Fail("var")

\* One iteration of `for (key, value) in profile.env.vars.iter()`.
VarStep ==
    /\ pc = "vars"
    /\ ItemsDone < MaxItems
    /\ \E key \in VarNames \ varsDone, content \in RunContents :
          \E ext \in ExtsFor(content) :
              VarResult(key, content, ext, Content_get_value(content, cache, ext))
    /\ UNCHANGED <<EncVars, BackendVars, CodecVars, ExecVars, VerVars>>
    /\ UNCHANGED <<force, fromDone, filesDone, disk, created_files, child, printed, exec_status>>

\* The vars loop ends.
VarsEnd ==
    /\ pc = "vars"
    /\ pc' = "files"
    /\ UNCHANGED <<EncVars, BackendVars, CodecVars, ExecVars, PgpVars, VerVars, RunVars>>

\* What the files loop does with the result r of file_path's Content; fs tells
\* which file-system call fails, if one does.
FileResult(file_path, content, ext, r, fs) ==
    /\ Got("file", content, r, ext)
    /\ IF ~r.res.ok THEN Fail("file") /\ UNCHANGED <<disk, created_files>>
       ELSE IF fs = "mkdir" THEN Fail("mkdir") /\ UNCHANGED <<disk, created_files>>
       ELSE IF fs = "open" THEN Fail("write") /\ UNCHANGED <<disk, created_files>>
       ELSE IF fs = "write" THEN
           /\ Fail("write")
           /\ disk' = [disk EXCEPT ![file_path] = [by |-> "run", data |-> <<>>]]
           /\ UNCHANGED created_files
       ELSE
           /\ disk' = [disk EXCEPT ![file_path] = [by |-> "run", data |-> r.res.val]]
           /\ created_files' = Append(created_files, file_path)
           /\ UNCHANGED <<pc, failure, exit_code>>

\* One iteration of `for (file_path, content) in profile.files.iter()`.
FileStep ==
    /\ pc = "files"
    /\ ItemsDone < MaxItems
    /\ \E file_path \in FilePaths \ filesDone :
          /\ filesDone' = filesDone \cup {file_path}
          /\ IF RefusesExisting(disk[file_path].by # "none", force)
             THEN /\ Fail("exists")
                  /\ UNCHANGED <<PgpVars, calls, lastItem, nFailed, disk, created_files>>
             ELSE \E content \in RunContents, fs \in {"ok", "mkdir", "open", "write"} :
                    \E ext \in ExtsFor(content) :
                      FileResult(file_path, content, ext,
                                 Content_get_value(content, cache, ext), fs)
    /\ UNCHANGED <<EncVars, BackendVars, CodecVars, ExecVars, VerVars>>
    /\ UNCHANGED <<force, fromDone, varsDone, env_vars, child, printed, exec_status>>

\* The files loop ends.
FilesEnd ==
    /\ pc = "files"
    /\ pc' = "exec"
    /\ UNCHANGED <<EncVars, BackendVars, CodecVars, ExecVars, PgpVars, VerVars, RunVars>>

Commands == {None, Some(<<>>), Some(<<"prog", "arg">>)}

Keeps == {None, Some(<<"^PATH$", "^V">>), Some(<<"^PATH$", "(">>)}

\* `match command`: the child is run, or the variables are printed.
Exec ==
    /\ pc = "exec"
    /\ \E command \in Commands, keep \in Keeps, spawn \in BOOLEAN, code \in {0, 3, -1} :
          IF command # None /\ command[1] # <<>>
          THEN LET x == exec_command(command[1], env_vars, keep, spawn, code)
               IN  IF x.ok
                   THEN /\ child' = x.child
                        /\ exec_status' = Some(code)
                        /\ pc' = "cleanup"
                        /\ UNCHANGED <<printed, failure, exit_code>>
                   ELSE Fail("exec") /\ UNCHANGED <<child, exec_status, printed>>
          ELSE /\ printed' = Some(env_vars)
               /\ pc' = "cleanup"
               /\ UNCHANGED <<child, exec_status, failure, exit_code>>
    /\ UNCHANGED <<EncVars, BackendVars, CodecVars, ExecVars, PgpVars, VerVars>>
    /\ UNCHANGED <<force, fromDone, varsDone, filesDone, disk, env_vars, created_files, calls,
                   lastItem, nFailed>>

\* The end of main: `for file in created_files.iter()` removes each file (a
\* removal may fail), then `match exec_status?` passes the child's exit code on.
Finish ==
    /\ pc = "cleanup"
    /\ \E stuck \in SUBSET {created_files[i] : i \in 1..Len(created_files)} :
          disk' = [p \in FilePaths |->
                      IF (\E i \in 1..Len(created_files) : created_files[i] = p) /\ p \notin stuck
                      THEN NoFile ELSE disk[p]]
    /\ pc' = "done"
    /\ exit_code' = IF exec_status = None \/ exec_status[1] = 0 THEN Some(0)
                    ELSE IF exec_status[1] = -1 THEN Some(1)
                    ELSE exec_status
    /\ UNCHANGED <<EncVars, BackendVars, CodecVars, ExecVars, PgpVars, VerVars>>
    /\ UNCHANGED <<force, fromDone, varsDone, filesDone, env_vars, created_files, calls,
                   lastItem, nFailed, child, printed, failure, exec_status>>

Next ==
    \/ Load
    \/ FromStep
    \/ FromEnd
    \/ VarStep
    \/ VarsEnd
    \/ FileStep
    \/ FilesEnd
    \/ Exec
    \/ Finish

Init == InitRun

Spec == Init /\ [][Next]_vars

\* ------------------------------------------------------------------ claims

\* C1 (as stated): on one PgpManager the password prompt is invoked at most
\* once for each primary-key fingerprint.
C1_PromptedAtMostOnce == \A f \in Fingerprints : prompts[f] <= 1

\* C1 (amended): on one PgpManager the prompt returns a password at most once
\* for each primary-key fingerprint, namely when the cache comes to hold that
\* password; a prompt that fails stores nothing, so it may be invoked again
\* for the same fingerprint.
C1_AnsweredAtMostOnce ==
    \A f \in Fingerprints :
        /\ answered[f] <= 1
        /\ answered[f] = 1 <=> (f \in DOMAIN cache /\ cache[f].password # None)

\* C1 witness: a second unlock of a protected key is served from the cache,
\* one password having been given for it.
C1_Witness ==
    /\ nCalls >= 2
    /\ lastCall.out.unlock.hit
    /\ answered[lastCall.out.unlock.fp] = 1
    /\ prompts[lastCall.out.unlock.fp] = 1

\* C6: get_value returns the text of a Literal unchanged; for Base64(s) it
\* returns t exactly when s is the padded standard encoding of the UTF-8 text
\* t, and an error when s is the encoding of no UTF-8 text.
C6_GetValue ==
    pc = "encDone" =>
        /\ encIn.tag = "literal" => encOut = Ok(encIn.s)
        /\ encIn.tag = "base64" /\ encOut.ok =>
                IsUtf8(encOut.val) /\ Base64Encode(encOut.val) = encIn.s
        /\ encIn.tag = "base64" /\ ~encOut.ok =>
                /\ encOut.val = <<>>
                /\ \A t \in ByteStrings : IsUtf8(t) => Base64Encode(t) # encIn.s

\* C6 witness: a Base64 value decoded to a two-byte UTF-8 character.
C6_Witness ==
    /\ pc = "encDone"
    /\ encIn = Base64(Base64Encode(<<195, 169>>))
    /\ encOut = Ok(<<195, 169>>)

\* C9: a decrypt call whose key material does not parse returns an error,
\* invokes no prompt and leaves the cache as it was, at every call.
C9_BadMaterialFails ==
    [][ (nCalls' = nCalls + 1 /\ ~Cert_from_bytes(lastCall'.material).ok) =>
            /\ ~lastCall'.out.res.ok
            /\ lastCall'.out.res.err = "Failed to parse PGP private key"
            /\ cache' = cache
            /\ prompts' = prompts ]_vars

\* C9 witness: material that does not parse fails again, after other keys
\* have been unlocked.
C9_Witness ==
    /\ nCalls >= 3
    /\ lastCall.material = BadMaterial
    /\ ~lastCall.out.res.ok
    /\ cache # EmptyCache
    /\ \E f \in Fingerprints : prompts[f] > 0

\* Whether the latest call missed the cache with material that parses.
LastCallMissed ==
    /\ nCalls > 0
    /\ Cert_from_bytes(lastCall.material).ok
    /\ ~lastCall.out.unlock.hit

LastCert == Cert_from_bytes(lastCall.material).cert

\* C10 (as stated): on a cache miss the prompt is invoked iff some
\* decryption-capable, policy-valid, non-revoked secret key of the certificate
\* is password-protected.
C10_PromptIffCapableKeyProtected ==
    LastCallMissed =>
        (lastCall.out.unlock.prompted <=>
            \E i \in 1..Len(LastCert.keys) :
                LET k == LastCert.keys[i]
                IN  k.secret /\ k.enc /\ k.valid /\ ~k.revoked /\ k.encrypted)

\* C10 (amended): on a cache miss the prompt is invoked iff some key of the
\* certificate that carries secret material and is valid under the policy is
\* password-protected, whatever its capabilities and whether or not it is
\* revoked or expired; without such a key no prompt occurs and the stored
\* password is absent.
C10_PromptIffSecretKeyProtected ==
    LastCallMissed =>
        /\ lastCall.out.unlock.prompted <=>
              \E i \in 1..Len(LastCert.keys) :
                  LET k == LastCert.keys[i]
                  IN  k.secret /\ k.valid /\ k.encrypted
        /\ ~lastCall.out.unlock.prompted =>
              /\ lastCall.out.unlock.ok
              /\ lastCall.out.unlock.key.password = None
              /\ cache[LastCert.fp].password = None

\* C10 witness: a miss on a certificate whose only protected key is revoked
\* prompts.
C10_Witness ==
    /\ LastCallMissed
    /\ lastCall.material = MaterialOf(4)
    /\ lastCall.out.unlock.prompted
    /\ lastCall.out.unlock.ok

\* Whether a file written by this run is on the disk.
RunFileOnDisk == \E p \in FilePaths : disk[p].by = "run"

\* C2 (as stated): if resolving any variable or file Content of the profile
\* fails, no file written by this run exists on disk.
C2_NoFileAfterFailure == nFailed > 0 => ~RunFileOnDisk

\* C3: if resolving a variable or file Content fails, the run aborts at that
\* failure: it is the only failure and the last item resolved, main has
\* returned the error, no child was started and nothing was printed.
C3_AbortsAtFirstFailure ==
    nFailed > 0 =>
        /\ nFailed = 1
        /\ ~lastItem.ok
        /\ pc = "failed" /\ failure \in {"var", "file"}
        /\ exit_code = Some(1)
        /\ ~child.started /\ exec_status = None
        /\ printed = None

\* C3 witness: a file Content fails after a variable was resolved.
C3_Witness ==
    /\ nFailed = 1
    /\ pc = "failed"
    /\ lastItem.kind = "file" /\ lastItem.n >= 2
    /\ env_vars # NoEnv

\* Whether load validated a manifest version whose major differs from the
\* binary's.
MajorDiffers ==
    /\ pc # "load"
    /\ validated # NotValidated
    /\ Version_parse(manifestVersion).ok
    /\ Version_parse(manifestVersion).major # Version_parse(cliVersion).major

\* Nothing of the profile has been resolved: no item, no backend call, no
\* prompt, no cached key, no file written, no child.
NothingResolved ==
    /\ lastItem = NoItem /\ fromDone = 0 /\ varsDone = {} /\ filesDone = {}
    /\ \A tl \in Tools : calls[tl] = 0
    /\ \A f \in Fingerprints : prompts[f] = 0
    /\ cache = EmptyCache /\ nCalls = 0
    /\ ~RunFileOnDisk /\ created_files = <<>>
    /\ env_vars = NoEnv /\ ~child.started /\ printed = None

C5_NewerMinorOnlyWarns ==
    (/\ pc = "verDone"
     /\ Version_parse(manifestVersion).ok /\ Version_parse(cliVersion).ok
     /\ Version_parse(manifestVersion).major = Version_parse(cliVersion).major
     /\ Version_parse(manifestVersion).minor > Version_parse(cliVersion).minor)
        => validated.ok

\* Whether this step is a Content::get_value call of the run.
ResolvesItem == lastItem'.n = lastItem.n + 1

\* C7: a Secure Content whose value does not decode fails with no backend
\* invoked, no prompt, no PgpManager call and the key cache unchanged.
C7_ValueDecodedFirst ==
    [][ (/\ ResolvesItem
         /\ lastItem'.content.tag = "secure"
         /\ ~EncodedValue_get_value(lastItem'.content.value).ok) =>
            /\ ~lastItem'.ok
            /\ calls' = calls
            /\ prompts' = prompts /\ answered' = answered
            /\ cache' = cache /\ nCalls' = nCalls ]_vars

\* C7 witness: a Secure Content with a key in Secret Manager and a value that
\* is no base64 failed, a key being cached from an earlier item.
C7_Witness ==
    /\ lastItem.n >= 2
    /\ lastItem.content = Secure(AllocGcp(GoodFqn, None), BadBase64)
    /\ ~lastItem.ok
    /\ cache # EmptyCache
    /\ calls["gcloud"] = 0

\* C8: a Secure Content with a Gpg allocation invokes gpg's decryption once,
\* where its value decodes, and nothing else: no key export, no PgpManager
\* call, no prompt, and the key cache unchanged.
C8_GpgDelegated ==
    [][ (/\ ResolvesItem
         /\ lastItem'.content.tag = "secure"
         /\ lastItem'.content.secret.tag = "gpg") =>
            /\ calls' = IF EncodedValue_get_value(lastItem'.content.value).ok
                        THEN [calls EXCEPT !["gpg_decrypt"] = @ + 1] ELSE calls
            /\ prompts' = prompts /\ answered' = answered
            /\ cache' = cache /\ nCalls' = nCalls /\ lastCall' = lastCall ]_vars

\* C8 witness: gpg decrypted the value of a Gpg allocation, a key being cached
\* from an earlier item.
C8_Witness ==
    /\ lastItem.n >= 2
    /\ lastItem.content.tag = "secure" /\ lastItem.content.secret.tag = "gpg"
    /\ lastItem.ok
    /\ calls["gpg_decrypt"] = 1 /\ calls["gpg_export"] = 0
    /\ cache # EmptyCache

\* Whether this step is a PgpManager::decrypt call.
DecryptCall == nCalls' = nCalls + 1

\* The fingerprint of the key material of the call this step makes.
CallFingerprint == get_fingerprint(Cert_from_bytes(lastCall'.material).cert)

\* Whether this step's call finds its key in the cache.
CallHits ==
    /\ DecryptCall
    /\ Cert_from_bytes(lastCall'.material).ok
    /\ CallFingerprint \in DOMAIN cache

\* C11: an entry of the cache is never replaced, modified or removed by a
\* later call, and an unlock of a cached fingerprint succeeds without a prompt
\* and returns exactly the stored password.
C11_CacheEntriesFinal ==
    [][ /\ \A f \in DOMAIN cache : f \in DOMAIN cache' /\ cache'[f] = cache[f]
        /\ CallHits =>
              /\ lastCall'.out.unlock.ok
              /\ ~lastCall'.out.unlock.prompted
              /\ lastCall'.out.unlock.key.password = cache[CallFingerprint].password ]_vars

\* C11 witness: a key cached with a password that does not unlock it is used
\* again, and fails again, the entry being as it was.
C11_Witness ==
    /\ nCalls >= 2
    /\ lastCall.out.unlock.hit
    /\ ~lastCall.out.res.ok
    /\ \E i \in 1..Len(lastCall.out.trace) : lastCall.out.trace[i].step = "unlock failed"
    /\ cache[lastCall.out.unlock.fp] = CachedKey(CertCatalogue[1], Some("p2"))

\* The key the helper of the latest call worked with.
LastKey == lastCall.out.unlock.key

LastMessage == Message_from_bytes(lastCall.cipher).msg

\* Whether the latest call got as far as the decryption helper.
LastCallReachedHelper ==
    /\ nCalls > 0
    /\ lastCall.out.unlock.ok
    /\ Message_from_bytes(lastCall.cipher).ok

\* Whether key k, with the password of the latest call's key, recovers a
\* session key of the latest call's message.
Recovers(k) ==
    /\ k.secret /\ k.valid /\ k.alive /\ ~k.revoked
    /\ k.encrypted => LastKey.password # None /\ LastKey.password[1] = k.pwd
    /\ \E j \in 1..Len(LastMessage.pkesks) : LastMessage.pkesks[j] = k.id

\* C12: a candidate key that the cached password does not unlock is passed
\* over: the helper goes on to the next key, and the decryption succeeds when
\* some key of the certificate recovers a session key.
C12_UnlockFailureSkipsKey ==
    LastCallReachedHelper =>
        /\ \A i \in 1..Len(lastCall.out.trace) :
              lastCall.out.trace[i].step = "unlock failed" =>
                  i < Len(lastCall.out.trace) \/ i = Len(LastKey.cert.keys)
        /\ (\E i \in 1..Len(LastKey.cert.keys) : Recovers(LastKey.cert.keys[i])) =>
              /\ HelperFound(lastCall.out.trace)
              /\ (LastMessage.sound /\ IsUtf8(LastMessage.plain)) =>
                    lastCall.out.res = Ok(LastMessage.plain)

\* C12 witness: the first subkey did not unlock with the cached password, the
\* second one recovered the session key and the plaintext was returned.
C12_Witness ==
    /\ LastCallReachedHelper
    /\ Len(lastCall.out.trace) = 2
    /\ lastCall.out.trace[1].step = "unlock failed"
    /\ lastCall.out.trace[2].step = "session key"
    /\ lastCall.out.res.ok

\* C13: when no key of the certificate recovers a session key, the helper
\* ends after one pass over the keys and the call returns an error and no
\* text.
C13_NoMatchingKeyFails ==
    (/\ LastCallReachedHelper
     /\ \A i \in 1..Len(LastKey.cert.keys) : ~Recovers(LastKey.cert.keys[i])) =>
        /\ Len(lastCall.out.trace) = Len(LastKey.cert.keys)
        /\ ~HelperFound(lastCall.out.trace)
        /\ lastCall.out.res = Err("Failed to initialize PGP decryptor")

\* C13 witness: two usable subkeys, unlocked or not, and a message encrypted
\* to neither.
C13_Witness ==
    /\ LastCallReachedHelper
    /\ LastKey.cert.fp = "FPG"
    /\ lastCall.cipher = CipherOf(3)
    /\ Len(lastCall.out.trace) = 2
    /\ ~lastCall.out.res.ok /\ lastCall.out.res.val = <<>>

\* C20: a call that finds its key in the cache works with the certificate and
\* the password stored there, not with the certificate of its own material.
C20_HitUsesStoredCert ==
    [][ CallHits =>
            /\ lastCall'.out.unlock.hit
            /\ lastCall'.out.unlock.key =
                   UnlockedKey(cache[CallFingerprint].cert, CallFingerprint,
                               cache[CallFingerprint].password)
            /\ Message_from_bytes(lastCall'.cipher).ok =>
                   \A i \in 1..Len(lastCall'.out.trace) :
                       lastCall'.out.trace[i].key = cache[CallFingerprint].cert.keys[i].id ]_vars

\* C20 witness: the unprotected export of a key is passed in after its
\* protected export was cached with a wrong password: the call uses the
\* protected certificate and fails, though its own material would decrypt.
C20_Witness ==
    /\ nCalls >= 2
    /\ lastCall.material = MaterialOf(2)
    /\ lastCall.cipher = CipherOf(1)
    /\ lastCall.out.unlock.hit
    /\ lastCall.out.unlock.key.cert = CertCatalogue[1]
    /\ lastCall.out.unlock.key.password = Some("p2")
    /\ ~lastCall.out.res.ok

\* Whether the latest backend call ran `op` and its process exited with zero.
ExitedZero == backendCall.proc.io = "ok" /\ backendCall.proc.success

\* C14: the resolution of a Gpg allocation returns the exported material
\* exactly when gpg exited with zero and wrote a text that is not empty and
\* not only white space; it fails on every other outcome, a non-zero exit
\* included.
C14_EmptyExportFails ==
    backendCall.op = "gpg_export" =>
        /\ backendCall.out.res.ok <=>
              /\ ExitedZero
              /\ IsUtf8(backendCall.proc.stdout)
              /\ \E i \in 1..Len(backendCall.proc.stdout) :
                    backendCall.proc.stdout[i] \notin {9, 10, 11, 12, 13, 32, 194, 160, 133}
        /\ backendCall.out.res.ok => backendCall.out.res.val = backendCall.proc.stdout
        /\ ~backendCall.out.res.ok => backendCall.out.res.val = <<>>

\* C14 witness: gpg exited with zero and wrote a space and a newline; the
\* resolution failed.
C14_Witness ==
    /\ backendCall.op = "gpg_export"
    /\ ExitedZero
    /\ backendCall.proc.stdout = <<32, 10>>
    /\ backendCall.out.res.err = "Failed to export GPG private key"
    /\ ~backendCall.out.res.ok

\* Whether fqn has the shape projects/<p>/secrets/<name> or
\* projects/<p>/secrets/<name>/versions/<v>, no part of it empty.
WellShaped(fqn) ==
    /\ Len(Split(fqn, 47)) \in {4, 6}
    /\ Split(fqn, 47)[1] = ProjectsWord
    /\ Split(fqn, 47)[2] # <<>>
    /\ Split(fqn, 47)[3] = SecretsWord
    /\ Split(fqn, 47)[4] # <<>>
    /\ Len(Split(fqn, 47)) = 6 =>
          Split(fqn, 47)[5] = VersionsWord /\ Split(fqn, 47)[6] # <<>>

\* C15 (as stated): access_secret with a malformed resource identifier returns
\* an error and runs no process.
C15_MalformedNotSpawned ==
    (backendCall.op = "gcloud" /\ ~WellShaped(backendCall.arg)) =>
        ~backendCall.out.res.ok /\ backendCall.out.runs = 0

\* C16 (as stated): parse_project_and_secret accepts an identifier exactly
\* when it has the shape projects/<p>/secrets/<name>[/versions/<v>].
C16_OnlyWellShapedAccepted ==
    backendCall.op = "gcloud" =>
        (parse_project_and_secret(backendCall.arg).ok <=> WellShaped(backendCall.arg))

\* Whether this step is a call of access_secret_cached_with.
CachedCall == nBackend' = nBackend + 1 /\ backendCall'.op = "gcloud_cached"

\* The cache key of the call this step makes.
CallKey == cache_key(GcpSecretSpec(backendCall'.arg, backendCall'.version))

\* The version a call names, absent meaning "latest".
VersionOf(call) == IF call.version = None THEN LatestWord ELSE call.version[1]

\* C17: no call changes or removes an entry of the cache; a call whose key is
\* cached returns the cached value and runs no process; a failed fetch leaves
\* the cache as it was and a successful one adds its value; and a call that
\* follows a successful call for the same secret and version returns the same
\* value and runs no process.
C17_CacheKeepsFirstValue ==
    [][ /\ \A k \in DOMAIN secret_cache :
              k \in DOMAIN secret_cache' /\ secret_cache'[k] = secret_cache[k]
        /\ CachedCall =>
              /\ CallKey \in DOMAIN secret_cache =>
                    /\ backendCall'.out.res = Ok(secret_cache[CallKey])
                    /\ spawned' = spawned
                    /\ secret_cache' = secret_cache
              /\ (CallKey \notin DOMAIN secret_cache /\ ~backendCall'.out.res.ok) =>
                    secret_cache' = secret_cache
              /\ (CallKey \notin DOMAIN secret_cache /\ backendCall'.out.res.ok) =>
                    /\ DOMAIN secret_cache' = DOMAIN secret_cache \cup {CallKey}
                    /\ secret_cache'[CallKey] = backendCall'.out.res.val
              /\ (/\ backendCall.op = "gcloud_cached" /\ backendCall.out.res.ok
                  /\ backendCall'.arg = backendCall.arg
                  /\ VersionOf(backendCall') = VersionOf(backendCall)) =>
                    /\ backendCall'.out.res = backendCall.out.res
                    /\ spawned' = spawned ]_vars

\* C17 witness: a call without a version is answered from the cache with the
\* value fetched earlier, where gcloud would now return another value.
C17_Witness ==
    /\ nBackend = 3
    /\ backendCall.op = "gcloud_cached"
    /\ backendCall.version = None
    /\ backendCall.out.runs = 0
    /\ backendCall.out.res = Ok(<<118>>)
    /\ backendCall.proc.stdout = <<119>>
    /\ Cardinality(DOMAIN secret_cache) = 2

\* C18: a backend call whose tool exits non-zero returns an error that
\* carries the standard error of the tool, as text, and the tool is run once;
\* no call runs its tool more than once.
C18_FailureCarriesStderr ==
    /\ backendCall.out.runs <= 1
    /\ spawned <= nBackend
    /\ (/\ backendCall.op \in {"gpg_export", "gpg_decrypt", "gcloud", "aws"}
        /\ backendCall.out.tool # "none"
        /\ backendCall.proc.io = "ok" /\ ~backendCall.proc.success) =>
            /\ ~backendCall.out.res.ok
            /\ backendCall.out.res.val = <<>>
            /\ backendCall.out.res.detail = from_utf8_lossy(backendCall.proc.stderr)
            /\ IsUtf8(backendCall.proc.stderr) =>
                  backendCall.out.res.detail = backendCall.proc.stderr
            /\ backendCall.out.runs = 1

\* C18 witness: aws exited non-zero at each of three calls and was run three
\* times; the latest error carries its standard error.
C18_Witness ==
    /\ nBackend = 3 /\ spawned = 3
    /\ backendCall.op = "aws"
    /\ ~backendCall.proc.success /\ backendCall.proc.io = "ok"
    /\ backendCall.proc.stderr = <<101>>
    /\ backendCall.out.res.detail = <<101>>
    /\ ~backendCall.out.res.ok

\* The key by which the latest decoding selected the variant.
Selector == decodeCall.map[1].key

\* Whether `a` and `b` are the same but for the case of their letters.
RECURSIVE SameButCase(_, _)
SameButCase(a, b) ==
    IF a = <<>> \/ b = <<>> THEN a = b
    ELSE IF Len(a) >= 3 /\ SubSeq(a, 1, 3) = KelvinSign
         THEN SameButCase(<<75>> \o SubSeq(a, 4, Len(a)), b)
    ELSE IF Len(b) >= 3 /\ SubSeq(b, 1, 3) = KelvinSign
         THEN SameButCase(a, <<75>> \o SubSeq(b, 4, Len(b)))
    ELSE /\ \/ a[1] = b[1]
            \/ a[1] \in 65..90 /\ b[1] = a[1] + 32
            \/ b[1] \in 65..90 /\ a[1] = b[1] + 32
         /\ SameButCase(Tail(a), Tail(b))

\* The variants whose name is the selector but for case.
Selected == {i \in 1..Len(derived.variants) : SameButCase(derived.variants[i].name, Selector)}

ProtectedCandidate(k) == k.secret /\ k.valid /\ k.alive /\ ~k.revoked /\ k.encrypted

\* C21: whenever the helper iterates a password-protected secret key, the
\* helper has a password: no step of the helper is the skip for want of a
\* password, whether the key was unlocked by this call or came from the cache.
C21_PasswordPresentForProtectedKey ==
    LastCallReachedHelper =>
        /\ (\E i \in 1..Len(LastKey.cert.keys) : ProtectedCandidate(LastKey.cert.keys[i])) =>
              LastKey.password # None
        /\ \A i \in 1..Len(lastCall.out.trace) : lastCall.out.trace[i].step # "no password"

\* C21 witness: a call served from the cache iterated two protected keys, the
\* first of which the cached password did not unlock.
C21_Witness ==
    /\ LastCallReachedHelper
    /\ lastCall.out.unlock.hit
    /\ LastKey.password # None
    /\ Len(lastCall.out.trace) = 2
    /\ ProtectedCandidate(LastKey.cert.keys[1]) /\ ProtectedCandidate(LastKey.cert.keys[2])
    /\ lastCall.out.trace[1].step = "unlock failed"

\* Whether this step is a call whose password prompt failed: the prompt was
\* invoked and returned no password.
PromptFailed == DecryptCall /\ prompts' # prompts /\ answered' = answered

\* Whether some secret key of the certificate that the policy accepts is
\* password-protected.
HasProtectedSecret(cert) ==
    \E i \in 1..Len(cert.keys) :
        cert.keys[i].secret /\ cert.keys[i].valid /\ cert.keys[i].encrypted

\* C22: a call whose password prompt fails returns an error and leaves the
\* cache as it was, without an entry for the fingerprint; and every call for a
\* fingerprint that is not in the cache and has a protected secret key invokes
\* the prompt, the call after a failed prompt included.
C22_FailedPromptNotCached ==
    [][ /\ PromptFailed =>
              /\ lastCall'.out.res = Err("Failed to read password")
              /\ ~lastCall'.out.unlock.ok
              /\ cache' = cache
              /\ CallFingerprint \notin DOMAIN cache'
              /\ prompts'[CallFingerprint] = prompts[CallFingerprint] + 1
              /\ answered' = answered
        /\ (/\ DecryptCall
            /\ Cert_from_bytes(lastCall'.material).ok
            /\ CallFingerprint \notin DOMAIN cache
            /\ HasProtectedSecret(Cert_from_bytes(lastCall'.material).cert)) =>
              /\ lastCall'.out.unlock.prompted
              /\ prompts'[CallFingerprint] = prompts[CallFingerprint] + 1 ]_vars

\* C22 witness: the prompt for one fingerprint failed at two calls, and the
\* fingerprint is not in the cache.
C22_Witness ==
    /\ prompts["FPA"] = 2
    /\ answered["FPA"] = 0
    /\ "FPA" \notin DOMAIN cache
    /\ lastCall.out.unlock.err = "Failed to read password"
    /\ ~lastCall.out.res.ok

\* C23 (as stated): once the files loop has ended, every file the run wrote is
\* gone from the disk when the process ends, whether the child exited with
\* zero or not, could not be started, or no command was given.
C23_WrittenFilesRemoved ==
    (pc = "done" \/ (pc = "failed" /\ failure = "exec")) =>
        \A i \in 1..Len(created_files) : disk[created_files[i]].by # "run"

\* The paths the files loop reaches in this step.
ReachedPaths == filesDone' \ filesDone

\* C24: without --force no step changes or removes a file that was there
\* before the run; the step of the files loop that reaches such a file ends
\* the run with an error, resolves nothing, runs no tool, writes nothing and
\* starts no child; and no such file is among the files the cleanup removes.
C24_ExistingFileUntouched ==
    [][ ~force =>
          /\ \A p \in FilePaths : disk[p].by = "other" => disk'[p] = disk[p]
          /\ \A i \in 1..Len(created_files') : disk'[created_files'[i]].by # "other"
          /\ \A p \in ReachedPaths :
                disk[p].by = "other" =>
                    /\ pc' = "failed" /\ failure' = "exists" /\ exit_code' = Some(1)
                    /\ lastItem' = lastItem /\ nFailed' = nFailed
                    /\ calls' = calls /\ nCalls' = nCalls /\ cache' = cache
                    /\ created_files' = created_files
                    /\ ~child'.started /\ printed' = None ]_vars

\* C24 witness: without --force the run wrote one file and failed at the
\* next, which was there before and still is, unchanged.
C24_Witness ==
    /\ ~force
    /\ pc = "failed" /\ failure = "exists"
    /\ Len(created_files) = 1
    /\ lastItem.n = 1
    /\ \E p \in filesDone : disk[p] = OldFile /\ created_files[1] # p

\* The parent variables a keep list lets through.
KeptNames(keep) ==
    {n \in DOMAIN ParentEnv : \E i \in 1..Len(keep) : is_match(keep[i], n)}

\* The names the child of the latest exec_command call is to inherit.
Inherited == IF execIn.keep = None THEN DOMAIN ParentEnv ELSE KeptNames(execIn.keep[1])

\* Whether a pattern of the keep list does not compile.
BadKeep == execIn.keep # None /\ \E i \in 1..Len(execIn.keep[1]) : execIn.keep[1][i] = "("

\* C25: the child of exec_command has the resolved variables and, of the
\* parent's variables, those whose name matches a pattern of the keep list, or
\* all of them without a keep list; a resolved variable overrides a parent
\* variable of its name; a keep pattern that does not compile makes
\* exec_command fail without a child.
C25_ChildEnvironment ==
    pc = "exec_returned" =>
        /\ execOut.ok <=> (execIn.cmd_args # <<>> /\ ~BadKeep /\ execIn.spawn)
        /\ execOut.child.started <=> execOut.ok
        /\ BadKeep => ~execOut.child.started /\ ~execOut.ok
        /\ execOut.ok =>
              /\ DOMAIN execOut.child.env = Inherited \cup DOMAIN execIn.env_vars
              /\ \A n \in DOMAIN execOut.child.env :
                    execOut.child.env[n] = IF n \in DOMAIN execIn.env_vars
                                           THEN execIn.env_vars[n] ELSE ParentEnv[n]

\* C25 witness: under the keep list ^PATH$, ^V the child has PATH of the
\* parent and V1 as resolved, not as the parent has it, and no HOME.
C25_Witness ==
    /\ pc = "exec_returned"
    /\ execIn.keep = Some(<<"^PATH$", "^V">>)
    /\ execOut.child.started
    /\ DOMAIN execOut.child.env = {NamePATH, NameV1}
    /\ execOut.child.env[NameV1] = <<111>> /\ ParentEnv[NameV1] # <<111>>
    /\ execOut.child.env[NamePATH] = ParentEnv[NamePATH]

====
